---- MODULE Spec2Model ----
(***************************************************************************)
(* A model of the cloudtiff library: the TIFF container codec, the COG     *)
(* pyramid (Level, CloudTiff), the range readers and the render engine.    *)
(* Every definition is translated from the Rust source under src/src; the  *)
(* place it models is recorded in MODEL_MAP.json.                          *)
(***************************************************************************)
EXTENDS Integers, Sequences, FiniteSets, TLC

MaxOf(S) == CHOOSE x \in S : \A y \in S : y <= x

MinOf(S) == CHOOSE x \in S : \A y \in S : x <= y

\* the element of a one-element set; { e(v) : v \in {x} } evaluates x once
Only(S) == CHOOSE v \in S : TRUE

(***************************************************************************)
(* Natural numbers of any size, as sequences of digits in base LimbBase,   *)
(* least significant digit first and without leading zero digits (zero is  *)
(* the empty sequence).  They carry the 53-bit significands of f64 values, *)
(* which do not fit the model checker's machine integers.                  *)
(***************************************************************************)
LimbBase == 2^15

LimbBits == CHOOSE n \in 1..30 : 2^n = LimbBase

RECURSIVE BFromNat(_)
BFromNat(n) == IF n = 0 THEN << >> ELSE <<n % LimbBase>> \o BFromNat(n \div LimbBase)

RECURSIVE BToNat(_)
BToNat(a) == IF a = << >> THEN 0 ELSE a[1] + LimbBase * BToNat(Tail(a))

BNorm(a0) ==
  Only({ LET nz == {i \in 1..Len(a) : a[i] # 0}
         IN  IF nz = {} THEN << >> ELSE SubSeq(a, 1, MaxOf(nz))
       : a \in {a0 \o << >>} })

BDigit(a, i) == IF i >= 1 /\ i <= Len(a) THEN a[i] ELSE 0

\* the carry into digit i is decided by the digits below it
BAdd(a0, b0) ==
  Only({ LET n        == MaxOf({Len(a), Len(b)})
             sum(i)   == BDigit(a, i) + BDigit(b, i)
             carry(i) == \E j \in 1..(i - 1) :
                            /\ sum(j) >= LimbBase
                            /\ \A k \in (j + 1)..(i - 1) : sum(k) = LimbBase - 1
         IN  BNorm([i \in 1..(n + 1) |->
                      (sum(i) + IF carry(i) THEN 1 ELSE 0) % LimbBase])
       : a \in {a0}, b \in {b0} })

\* a0 - b0 for a0 >= b0
BSub(a0, b0) ==
  Only({ LET diff(i)   == BDigit(a, i) - BDigit(b, i)
             borrow(i) == \E j \in 1..(i - 1) :
                             /\ diff(j) < 0
                             /\ \A k \in (j + 1)..(i - 1) : diff(k) = 0
         IN  BNorm([i \in 1..Len(a) |->
                      (diff(i) - (IF borrow(i) THEN 1 ELSE 0) + LimbBase) % LimbBase])
       : a \in {a0}, b \in {b0} })

\* -1, 0, 1 as a0 < b0, a0 = b0, a0 > b0
BCmp(a0, b0) ==
  Only({ IF Len(a) # Len(b)
         THEN IF Len(a) < Len(b) THEN -1 ELSE 1
         ELSE LET D == {i \in 1..Len(a) : a[i] # b[i]}
              IN  IF D = {} THEN 0
                  ELSE IF a[MaxOf(D)] < b[MaxOf(D)] THEN -1 ELSE 1
       : a \in {a0}, b \in {b0} })

\* a * d for one digit d
RECURSIVE BMulSmallC(_, _, _, _, _)
BMulSmallC(a, d, i, c, acc) ==
  IF i > Len(a)
  THEN BNorm(IF c > 0 THEN Append(acc, c) ELSE acc)
  ELSE Only({ BMulSmallC(a, d, i + 1, c2, acc2)
            : c2 \in {(a[i] * d + c) \div LimbBase},
              acc2 \in {Append(acc, (a[i] * d + c) % LimbBase)} })

BMulSmall(a0, d0) == Only({ BMulSmallC(a, d, 1, 0, << >>) : a \in {a0}, d \in {d0} })

\* [q |-> a div d, r |-> a mod d] for one digit d # 0, most significant digit first
RECURSIVE BDivSmallC(_, _, _, _, _)
BDivSmallC(a, d, i, r, q) ==
  IF i = 0 THEN [q |-> BNorm(q), r |-> r]
  ELSE Only({ BDivSmallC(a, d, i - 1, r2, q2)
            : r2 \in {(r * LimbBase + a[i]) % d},
              q2 \in {<<(r * LimbBase + a[i]) \div d>> \o q} })

BDivSmall(a0, d0) == Only({ BDivSmallC(a, d, Len(a), 0, << >>) : a \in {a0}, d \in {d0} })

BShlLimbs(a, n) == IF a = << >> \/ n <= 0 THEN a ELSE [i \in 1..n |-> 0] \o a

BShl(a0, k0) ==
  Only({ IF a = << >> \/ k <= 0 THEN a
         ELSE BShlLimbs(BMulSmall(a, 2^(k % LimbBits)), k \div LimbBits)
       : a \in {a0}, k \in {k0} })

BShr(a0, k0) ==
  Only({ IF k <= 0 THEN a
         ELSE IF k \div LimbBits >= Len(a) THEN << >>
         ELSE IF k % LimbBits = 0 THEN SubSeq(a, k \div LimbBits + 1, Len(a))
         ELSE BDivSmall(SubSeq(a, k \div LimbBits + 1, Len(a)), 2^(k % LimbBits)).q
       : a \in {a0}, k \in {k0} })

\* the number of binary digits of a0
BBitLen(a0) ==
  Only({ IF a = << >> THEN 0
         ELSE (Len(a) - 1) * LimbBits
              + (CHOOSE n \in 1..LimbBits : 2^(n - 1) <= a[Len(a)] /\ a[Len(a)] < 2^n)
       : a \in {a0} })

BIsOdd(a) == a # << >> /\ a[1] % 2 = 1

RECURSIVE BMulC(_, _, _, _)
BMulC(a, b, i, acc) ==
  IF i > Len(b) THEN acc
  ELSE Only({ BMulC(a, b, i + 1, acc2)
            : acc2 \in {BAdd(acc, BShlLimbs(BMulSmall(a, b[i]), i - 1))} })

BMul(a0, b0) ==
  Only({ IF a = << >> \/ b = << >> THEN << >> ELSE BMulC(a, b, 1, << >>)
       : a \in {a0}, b \in {b0} })

\* the largest digit d with b * d <= r, found bit by bit from the top
RECURSIVE BQuotDigit(_, _, _, _)
BQuotDigit(r, b, bit, d) ==
  IF bit < 0 THEN d
  ELSE Only({ BQuotDigit(r, b, bit - 1, d2)
            : d2 \in {IF BCmp(BMulSmall(b, d + 2^bit), r) <= 0 THEN d + 2^bit ELSE d} })

\* long division, most significant digit first: [q |-> a div b, r |-> a mod b], b # 0
RECURSIVE BDivC(_, _, _, _, _)
BDivC(a, b, i, q, r) ==
  IF i = 0 THEN [q |-> BNorm(q), r |-> r]
  ELSE Only({ Only({ BDivC(a, b, i - 1, q2, r3)
                   : q2 \in {<<d>> \o q}, r3 \in {BSub(r2, BMulSmall(b, d))} })
            : <<r2, d>> \in { <<x, BQuotDigit(x, b, LimbBits - 1, 0)>>
                              : x \in {BNorm(<<a[i]>> \o r)} } })

BDivMod(a0, b0) == Only({ BDivC(a, b, Len(a), << >>, << >>) : a \in {a0}, b \in {b0} })

(***************************************************************************)
(* f64: a finite IEEE-754 binary64 value is (-1)^s * m * 2^e with m a      *)
(* natural of MantissaDigits binary digits; every operation computes the   *)
(* exact result and rounds it to nearest, ties to even, as the hardware    *)
(* does.  The values the model meets are far from the overflow and the     *)
(* subnormal range, so the exponent is left unbounded.                     *)
(***************************************************************************)
MantissaDigits == 53

FZero == [s |-> 0, m |-> << >>, e |-> 0]

FIsZero(a) == a.m = << >>

\* the canonical form: m = 0, or m has exactly MantissaDigits binary digits
FRound(s, m0, e0) ==
  Only({ IF L = 0 THEN FZero
         ELSE IF L <= MantissaDigits
         THEN [s |-> s, m |-> BShl(m, MantissaDigits - L), e |-> e0 - (MantissaDigits - L)]
         ELSE Only({ Only({ IF BBitLen(q2) > MantissaDigits
                            THEN [s |-> s, m |-> BShr(q2, 1), e |-> e0 + (L - MantissaDigits) + 1]
                            ELSE [s |-> s, m |-> q2, e |-> e0 + (L - MantissaDigits)]
                          : q2 \in { IF c > 0 \/ (c = 0 /\ BIsOdd(q)) THEN BAdd(q, <<1>>) ELSE q } })
                   : <<q, c>> \in { <<x, BCmp(BSub(m, BShl(x, L - MantissaDigits)),
                                               BShl(<<1>>, L - MantissaDigits - 1))>>
                                    : x \in {BShr(m, L - MantissaDigits)} } })
       : <<m, L>> \in { <<x, BBitLen(x)>> : x \in {BNorm(m0)} } })

\* n as f64, for an integer n (u32 as f64, usize as f64)
FFromInt(n) == IF n < 0 THEN FRound(1, BFromNat(-n), 0) ELSE FRound(0, BFromNat(n), 0)

FNeg(a) == IF FIsZero(a) THEN a ELSE [a EXCEPT !.s = 1 - a.s]

\* the magnitudes of a and b over the common exponent min(a.e, b.e)
FAlign(a, b) ==
  LET e == IF FIsZero(a) THEN b.e ELSE IF FIsZero(b) THEN a.e ELSE MinOf({a.e, b.e})
  IN  [ma |-> BShl(a.m, a.e - e), mb |-> BShl(b.m, b.e - e), e |-> e]

FAdd(x, y) ==
  Only({ IF a.s = b.s THEN FRound(a.s, BAdd(al.ma, al.mb), al.e)
         ELSE IF c = 0 THEN FZero
         ELSE IF c > 0 THEN FRound(a.s, BSub(al.ma, al.mb), al.e)
         ELSE FRound(b.s, BSub(al.mb, al.ma), al.e)
       : <<a, b, al, c>> \in { <<u[1], u[2], u[3], BCmp(u[3].ma, u[3].mb)>>
                               : u \in { <<v, w, FAlign(v, w)>> : v \in {x}, w \in {y} } } })

FSub(x, y) == FAdd(x, FNeg(y))

FMul(x, y) ==
  Only({ IF FIsZero(a) \/ FIsZero(b) THEN FZero
         ELSE FRound((a.s + b.s) % 2, BMul(a.m, b.m), a.e + b.e)
       : a \in {x}, b \in {y} })

\* x / y for y # 0: MantissaDigits + 2 quotient bits and a sticky bit decide the rounding
FDiv(x, y) ==
  Only({ IF FIsZero(a) THEN FZero
         ELSE Only({ FRound((a.s + b.s) % 2,
                            BAdd(BShl(dm.q, 1), IF dm.r = << >> THEN << >> ELSE <<1>>),
                            a.e - b.e - (MantissaDigits + 2) - 1)
                   : dm \in {BDivMod(BShl(a.m, MantissaDigits + 2), b.m)} })
       : a \in {x}, b \in {y} })

\* the bits `bit` down to `low` of the integer square root of a, above them r
RECURSIVE BSqrtC(_, _, _, _)
BSqrtC(a, bit, low, r) ==
  IF bit < low THEN r
  ELSE Only({ BSqrtC(a, bit - 1, low, r2)
            : r2 \in { Only({ IF BCmp(BMul(c, c), a) <= 0 THEN c ELSE r
                            : c \in {BAdd(r, BShl(<<1>>, bit))} }) } })

\* the integer square root of a number below 2^(8 * LimbBits), one digit at a time
BSqrt(a) ==
  Only({ Only({ Only({ BSqrtC(a, LimbBits - 1, 0, r2)
                     : r2 \in {BSqrtC(a, 2 * LimbBits - 1, LimbBits, r3)} })
              : r3 \in {BSqrtC(a, 3 * LimbBits - 1, 2 * LimbBits, r4)} })
       : r4 \in {BSqrtC(a, 4 * LimbBits - 1, 3 * LimbBits, << >>)} })

\* f64::sqrt for x >= 0: the significand is widened to 2 * MantissaDigits + 4 or
\* + 5 binary digits so that the exponent left is even; the root's digits and a
\* sticky bit for the remainder decide the rounding
FSqrt(x) ==
  Only({ IF FIsZero(a) THEN FZero
         ELSE Only({ Only({ FRound(0, BAdd(BShl(r, 1),
                                           IF BMul(r, r) = wide THEN << >> ELSE <<1>>),
                                   (a.e - k) \div 2 - 1)
                          : r \in {BSqrt(wide)} })
                   : <<k, wide>> \in { <<n, BShl(a.m, n)>>
                                       : n \in {MantissaDigits + 4 + ((a.e + MantissaDigits) % 2)} } })
       : a \in {x} })

\* -1, 0, 1 as x < y, x = y, x > y
FCmp(x, y) ==
  Only({ IF FIsZero(a) /\ FIsZero(b) THEN 0
         ELSE IF FIsZero(a) THEN (IF b.s = 1 THEN 1 ELSE -1)
         ELSE IF FIsZero(b) THEN (IF a.s = 1 THEN -1 ELSE 1)
         ELSE IF a.s # b.s THEN (IF a.s = 1 THEN -1 ELSE 1)
         ELSE Only({ IF a.s = 0 THEN BCmp(al.ma, al.mb) ELSE 0 - BCmp(al.ma, al.mb)
                   : al \in {FAlign(a, b)} })
       : a \in {x}, b \in {y} })

FLt(a, b) == FCmp(a, b) < 0

FLe(a, b) == FCmp(a, b) <= 0

\* f64::max, f64::min
FMax(x, y) == Only({ IF FLt(a, b) THEN b ELSE a : a \in {x}, b \in {y} })

FMin(x, y) == Only({ IF FLt(b, a) THEN b ELSE a : a \in {x}, b \in {y} })

\* the integer part of |x| and whether |x| has a fractional part
FSplit(x) ==
  Only({ IF a.e >= 0 THEN [int |-> BShl(a.m, a.e), frac |-> FALSE]
         ELSE Only({ [int |-> t, frac |-> BShl(t, 0 - a.e) # a.m] : t \in {BShr(a.m, 0 - a.e)} })
       : a \in {x} })

\* f64::floor
FFloor(x) ==
  Only({ IF a.s = 0 THEN FRound(0, sp.int, 0)
         ELSE FRound(1, IF sp.frac THEN BAdd(sp.int, <<1>>) ELSE sp.int, 0)
       : <<a, sp>> \in { <<v, FSplit(v)>> : v \in {x} } })

\* f64::ceil
FCeil(x) ==
  Only({ IF a.s = 1 THEN FRound(1, sp.int, 0)
         ELSE FRound(0, IF sp.frac THEN BAdd(sp.int, <<1>>) ELSE sp.int, 0)
       : <<a, sp>> \in { <<v, FSplit(v)>> : v \in {x} } })

\* `as u32`, `as usize`: truncation toward zero, negative values saturate to 0
FToNat(x) == Only({ IF a.s = 1 THEN 0 ELSE BToNat(FSplit(a).int) : a \in {x} })

(***************************************************************************)
(* The TIFF container: tiff/endian.rs, tiff/tag, tiff/ifd.rs, tiff/mod.rs. *)
(* A stream is its sequence of bytes; the numbers written to the header    *)
(* and the directory fields of the modelled files are below 2^31.          *)
(***************************************************************************)
Endians == {"Little", "Big"}

TiffVariants == {"Normal", "BigTiff"}

\* Endian::encode of an unsigned value to n bytes (to_le_bytes, to_be_bytes)
EndianEncode(endian, value, n) ==
  LET le == [i \in 1..n |-> IF i > 4 THEN 0 ELSE (value \div 256^(i - 1)) % 256]
  IN  IF endian = "Little" THEN le ELSE [i \in 1..n |-> le[n + 1 - i]]

\* Endian::decode of n bytes to an unsigned value (read_le, read_be)
RECURSIVE EndianDecodeLe(_)
EndianDecodeLe(b) == IF b = << >> THEN 0 ELSE b[1] + 256 * EndianDecodeLe(Tail(b))

EndianDecode(endian, b) ==
  IF endian = "Little" THEN EndianDecodeLe(b)
  ELSE EndianDecodeLe([i \in 1..Len(b) |-> b[Len(b) + 1 - i]])

\* Endian::encode_all
RECURSIVE EncodeAll(_, _, _)
EncodeAll(endian, values, n) ==
  IF values = << >> THEN << >>
  ELSE EndianEncode(endian, values[1], n) \o EncodeAll(endian, Tail(values), n)

\* TiffVariant::offset_bytesize
OffsetBytesize(variant) == IF variant = "Normal" THEN 4 ELSE 8

\* TiffVariant::write_offset with the u32 written whatever the variant
WriteOffsetAlwaysU32(variant, endian, offset) == EndianEncode(endian, offset, 4)

\* TiffVariant::write_offset: the bytes it writes
WriteOffset(variant, endian, offset) ==
  IF variant = "Normal" THEN EndianEncode(endian, offset, 4)
  ELSE EndianEncode(endian, offset, 8)

\* the u16 of each TagType; Unknown is the num_enum default
TagTypeByte == 1

TagTypeShort == 3

TagTypeLong == 4

TagTypeLong8 == 16

TagTypeUnknown == 65535

KnownTagTypes == (1..13) \cup (16..18)

\* From<u16> for TagType
TagTypeFromU16(n) == IF n \in KnownTagTypes THEN n ELSE TagTypeUnknown

\* TagType::size_in_bytes
SizeInBytes(datatype) ==
  CASE datatype \in {1, 2, 6, 7}        -> 1
    [] datatype \in {3, 8}              -> 2
    [] datatype \in {4, 9, 11, 13}      -> 4
    [] datatype \in {5, 10, 12, 16, 17, 18} -> 8
    [] OTHER                            -> 1

\* TagData as [type, vals]: TagData::tag_type, TagData::len, TagData::bytes
TagDataBytes(data, endian) == EncodeAll(endian, data.vals, SizeInBytes(data.type))

\* Tag::new
TagNew(code, endian, data) ==
  [code |-> code, datatype |-> data.type, count |-> Len(data.vals),
   data |-> TagDataBytes(data, endian), endian |-> endian]

\* Ifd::set_tag: the tag of that code is replaced in place, a new code is pushed
SetTag(ifd, code, data, endian) ==
  LET hit == {i \in 1..Len(ifd) : ifd[i].code = code}
  IN  IF hit # {} THEN [ifd EXCEPT ![MinOf(hit)] = TagNew(code, endian, data)]
      ELSE Append(ifd, TagNew(code, endian, data))

\* Tiff::new
TiffNew(endian, variant) == [endian |-> endian, variant |-> variant, ifds |-> << << >> >>]

\* Tiff::add_ifd
AddIfd(t) == [t EXCEPT !.ifds = Append(@, << >>)]

\* the loop of Ifd::encode over the tags: [dir: the directory entries written,
\* extra: extra_data, offsets: the offset recorded per tag code]
RECURSIVE EncodeTags(_, _, _, _, _, _)
EncodeTags(ifd, i, endian, variant, extra_data_offset, acc) ==
  IF i > Len(ifd) THEN acc
  ELSE Only({
    LET head == EndianEncode(endian, tag.code, 2) \o EndianEncode(endian, tag.datatype, 2)
                  \o WriteOffset(variant, endian, tag.count)
        osz  == OffsetBytesize(variant)
    IN  IF Len(tag.data) > osz
        THEN EncodeTags(ifd, i + 1, endian, variant, extra_data_offset,
               [dir     |-> acc.dir \o head
                              \o WriteOffset(variant, endian, extra_data_offset + Len(acc.extra)),
                extra   |-> acc.extra \o tag.data,
                offsets |-> Append(acc.offsets,
                              <<tag.code, extra_data_offset + Len(acc.extra)>>),
                start   |-> acc.start])
        ELSE EncodeTags(ifd, i + 1, endian, variant, extra_data_offset,
               [dir     |-> acc.dir \o head
                              \o SubSeq(tag.data \o [k \in 1..osz |-> 0], 1, osz),
                extra   |-> acc.extra,
                offsets |-> Append(acc.offsets,
                              <<tag.code, acc.start + Len(acc.dir) + Len(head)>>),
                start   |-> acc.start])
    : tag \in {ifd[i]} })

\* Ifd::encode at stream position pos: [bytes: what it writes, offsets: TiffOffsets]
IfdEncode(ifd, pos, endian, variant, last_ifd) ==
  LET tag_count == Len(ifd)
      count_len == IF variant = "Normal" THEN 2 ELSE 8
      tag_size  == IF variant = "Normal" THEN 12 ELSE 20
      osz       == OffsetBytesize(variant)
      extra_data_offset == pos + count_len + tag_size * tag_count + osz
      enc == EncodeTags(ifd, 1, endian, variant, extra_data_offset,
               [dir |-> << >>, extra |-> << >>, offsets |-> << >>, start |-> pos + count_len])
      current_pos == pos + count_len + Len(enc.dir)
      next == IF last_ifd THEN 0 ELSE current_pos + Len(enc.extra) + osz
  IN  [bytes   |-> EndianEncode(endian, tag_count, count_len) \o enc.dir
                     \o WriteOffset(variant, endian, next) \o enc.extra,
       offsets |-> enc.offsets]

\* Tiff::encode: [bytes: the stream written, offsets: one TiffOffsets per IFD]
RECURSIVE EncodeIfds(_, _, _)
EncodeIfds(t, i, acc) ==
  IF i > Len(t.ifds) THEN acc
  ELSE Only({ EncodeIfds(t, i + 1, [bytes   |-> acc.bytes \o e.bytes,
                                    offsets |-> Append(acc.offsets, e.offsets)])
            : e \in {IfdEncode(t.ifds[i], Len(acc.bytes), t.endian, t.variant,
                               i = Len(t.ifds))} })

TiffEncode(t) ==
  LET mark   == IF t.endian = "Little" THEN <<73, 73>> ELSE <<77, 77>>
      magic  == EndianEncode(t.endian, IF t.variant = "Normal" THEN 42 ELSE 43, 2)
      big    == IF t.variant = "BigTiff"
                THEN EndianEncode(t.endian, 8, 2) \o EndianEncode(t.endian, 0, 2)
                ELSE << >>
      first  == IF t.variant = "BigTiff" THEN EndianEncode(t.endian, 16, 8)
                ELSE EndianEncode(t.endian, 8, 4)
  IN  EncodeIfds(t, 1, [bytes |-> mark \o magic \o big \o first, offsets |-> << >>])

\* read_exact of n bytes at pos: the bytes, or the UnexpectedEof failure
CanRead(bytes, pos, n) == pos + n <= Len(bytes)

ReadAt(bytes, pos, n) == SubSeq(bytes, pos + 1, pos + n)

\* the tag loop of Ifd::parse from stream position pos
RECURSIVE ParseTags(_, _, _, _, _, _)
ParseTags(bytes, pos, n, endian, variant, acc) ==
  IF n = 0 THEN [ok |-> TRUE, tags |-> acc, pos |-> pos]
  ELSE LET osz == OffsetBytesize(variant)
       IN  IF ~CanRead(bytes, pos, 4 + 2 * osz) THEN [ok |-> FALSE]
           ELSE Only({
             LET data_size == count * SizeInBytes(datatype)
                 field     == pos + 4 + osz
                 data_offset == EndianDecode(endian, ReadAt(bytes, field, osz))
                 mk(data)  == [code |-> code, datatype |-> datatype, count |-> count,
                               data |-> data, endian |-> endian]
             IN  IF data_size > osz
                 THEN IF ~CanRead(bytes, data_offset, data_size) THEN [ok |-> FALSE]
                      ELSE ParseTags(bytes, field + osz, n - 1, endian, variant,
                                     Append(acc, mk(ReadAt(bytes, data_offset, data_size))))
                 ELSE ParseTags(bytes, field + osz, n - 1, endian, variant,
                                Append(acc, mk(SubSeq(ReadAt(bytes, field, osz), 1, data_size))))
             : code \in {EndianDecode(endian, ReadAt(bytes, pos, 2))},
               datatype \in {TagTypeFromU16(EndianDecode(endian, ReadAt(bytes, pos + 2, 2)))},
               count \in {EndianDecode(endian, ReadAt(bytes, pos + 4, osz))} })

\* Ifd::parse: [ok, ifd, next: the next IFD's offset]; not ok is an io error
IfdParse(bytes, offset, endian, variant) ==
  LET count_len == IF variant = "Normal" THEN 2 ELSE 8
  IN  IF ~CanRead(bytes, offset, count_len) THEN [ok |-> FALSE]
      ELSE Only({ IF ~p.ok \/ ~CanRead(bytes, p.pos, OffsetBytesize(variant))
                  THEN [ok |-> FALSE]
                  ELSE [ok |-> TRUE, ifd |-> p.tags,
                        next |-> EndianDecode(endian,
                                   ReadAt(bytes, p.pos, OffsetBytesize(variant)))]
                : p \in {ParseTags(bytes, offset + count_len,
                                   EndianDecode(endian, ReadAt(bytes, offset, count_len)),
                                   endian, variant, << >>)} })

\* the while loop of Tiff::open
RECURSIVE ParseIfds(_, _, _, _, _)
ParseIfds(bytes, ifd_offset, endian, variant, ifds) ==
  IF ifd_offset = 0
  THEN [err |-> "none", endian |-> endian, variant |-> variant, ifds |-> ifds]
  ELSE Only({ IF ~r.ok THEN [err |-> "ReadError"]
              ELSE ParseIfds(bytes, r.next, endian, variant, Append(ifds, r.ifd))
            : r \in {IfdParse(bytes, ifd_offset, endian, variant)} })

\* Tiff::open: the Tiff, or the TiffError
TiffOpen(bytes) ==
  IF ~CanRead(bytes, 0, 4) THEN [err |-> "ReadError"]
  ELSE IF ReadAt(bytes, 0, 2) \notin {<<73, 73>>, <<77, 77>>} THEN [err |-> "BadMagicBytes"]
  ELSE IF ReadAt(bytes, 2, 2) \notin {<<0, 42>>, <<42, 0>>, <<0, 43>>, <<43, 0>>}
       THEN [err |-> "BadMagicBytes"]
  ELSE LET endian  == IF ReadAt(bytes, 0, 2) = <<73, 73>> THEN "Little" ELSE "Big"
           variant == IF ReadAt(bytes, 2, 2) \in {<<0, 42>>, <<42, 0>>}
                      THEN "Normal" ELSE "BigTiff"
           hdr     == IF variant = "BigTiff" THEN 8 ELSE 4
           osz     == OffsetBytesize(variant)
       IN  IF ~CanRead(bytes, 4, hdr - 4 + osz) THEN [err |-> "ReadError"]
           ELSE ParseIfds(bytes, EndianDecode(endian, ReadAt(bytes, hdr, osz)),
                          endian, variant, << >>)

(***************************************************************************)
(* cog/level.rs and projection/primatives.rs: a Level is its dimensions,   *)
(* its tile size and its tile offset and byte count arrays; a             *)
(* Region<UnitFloat> is x.min, y.min, x.max, y.max as f64.                 *)
(***************************************************************************)
F0 == FZero

F1 == FFromInt(1)

\* UnitFloat::new_saturated: clamp to [0, 1]
UnitSaturated(v) == FMin(FMax(v, F0), F1)

\* Sub for UnitFloat: saturating
UnitSub(a, b) == UnitSaturated(FSub(a, b))

\* Region::unit
RegionUnit == [xmin |-> F0, ymin |-> F0, xmax |-> F1, ymax |-> F1]

\* Region::<UnitFloat>::new_saturated: each interval is ordered, then clamped
RegionNewSaturated(min_x, min_y, max_x, max_y) ==
  [xmin |-> UnitSaturated(FMin(min_x, max_x)), ymin |-> UnitSaturated(FMin(min_y, max_y)),
   xmax |-> UnitSaturated(FMax(min_x, max_x)), ymax |-> UnitSaturated(FMax(min_y, max_y))]

\* Level::col_count, Level::row_count
ColCount(level) ==
  FToNat(FCeil(FDiv(FFromInt(level.dimensions[1]), FFromInt(level.tile_width))))

RowCount(level) ==
  FToNat(FCeil(FDiv(FFromInt(level.dimensions[2]), FFromInt(level.tile_height))))

\* Level::tile_coord_from_image_coord
TileCoordFromImageCoord(level, x, y) ==
  [col |-> FDiv(FMul(x, FFromInt(level.dimensions[1])), FFromInt(level.tile_width)),
   row |-> FDiv(FMul(y, FFromInt(level.dimensions[2])), FFromInt(level.tile_height))]

\* Level::index_from_image_coords: Ok((tile_index, tile_x, tile_y)) or ImageCoordOutOfRange
IndexFromImageCoords(level, x, y) ==
  IF FLt(x, F0) \/ FLt(F1, x) \/ FLt(y, F0) \/ FLt(F1, y) THEN [ok |-> FALSE]
  ELSE Only({ [ok         |-> TRUE,
               tile_index |-> FToNat(rf) * ColCount(level) + FToNat(cf),
               tile_x     |-> FMul(FSub(tc.col, cf), FFromInt(level.tile_width)),
               tile_y     |-> FMul(FSub(tc.row, rf), FFromInt(level.tile_height))]
            : <<tc, cf, rf>> \in { <<t, FFloor(t.col), FFloor(t.row)>>
                                   : t \in {TileCoordFromImageCoord(level, x, y)} } })

\* Level::tile_indices_within_image_crop: the indices in the order they are pushed
TileIndicesWithinImageCrop(level, crop) ==
  Only({ LET col_min == FToNat(FMax(FFloor(lt.col), F0))
             col_max == FToNat(FMin(FCeil(rb.col), FFromInt(col_count)))
             row_min == FToNat(FMax(FFloor(lt.row), F0))
             row_max == FToNat(FMin(FCeil(rb.row), FFromInt(row_count)))
             ncol    == IF col_max > col_min THEN col_max - col_min ELSE 0
             nrow    == IF row_max > row_min THEN row_max - row_min ELSE 0
         IN  [n \in 1..(ncol * nrow) |->
                (row_min + ((n - 1) \div ncol)) * col_count + col_min + ((n - 1) % ncol)]
       : lt \in {TileCoordFromImageCoord(level, crop.xmin, crop.ymin)},
         rb \in {TileCoordFromImageCoord(level, crop.xmax, crop.ymax)},
         col_count \in {ColCount(level)},
         row_count \in {RowCount(level)} })

\* Level::tile_byte_range (index is 0-based): Ok((start, end)), TileIndexOutOfRange,
\* or the panic of `len - 1` and of the indexing after it when an array is empty
TileByteRange(level, index) ==
  LET len == MinOf({Len(level.offsets), Len(level.byte_counts)})
  IN  IF len = 0 THEN [ok |-> FALSE, panic |-> TRUE]
      ELSE IF index > len - 1 THEN [ok |-> FALSE, panic |-> FALSE]
      ELSE [ok |-> TRUE, panic |-> FALSE, start |-> level.offsets[index + 1],
            end |-> level.offsets[index + 1] + level.byte_counts[index + 1]]

\* the width of u64
U64Bits == 64

\* a + b in u64: the sum, or overflow
U64Add(a, b) ==
  Only({ IF BBitLen(sum) > U64Bits
         THEN [overflow |-> TRUE, wrapped |-> BSub(sum, BShl(BFromNat(1), U64Bits))]
         ELSE [overflow |-> FALSE, wrapped |-> sum]
       : sum \in {BAdd(a, b)} })

\* Level::tile_byte_range with offsets of the full u64 range, as sequences of
\* digits.  `len - 1` of an empty array panics under overflow checks and wraps to
\* usize::MAX without them, where the indexing that follows panics; the sum
\* `offset + byte_count` panics under overflow checks and wraps without them.
TileByteRangeU64(level, index, overflow_checks) ==
  LET len == MinOf({Len(level.offsets), Len(level.byte_counts)})
  IN  IF len = 0 THEN [ok |-> FALSE, panic |-> TRUE]
      ELSE IF index > len - 1 THEN [ok |-> FALSE, panic |-> FALSE]
      ELSE Only({ IF sum.overflow /\ overflow_checks THEN [ok |-> FALSE, panic |-> TRUE]
                  ELSE [ok |-> TRUE, panic |-> FALSE,
                        start |-> level.offsets[index + 1], end |-> sum.wrapped]
                : sum \in { U64Add(level.offsets[index + 1],
                                   BFromNat(level.byte_counts[index + 1])) } })

(***************************************************************************)
(* render/util.rs, render/tiles.rs, render/renderer.rs.  The file behind   *)
(* the reader holds, for tile k of a level, the pixels of the level image  *)
(* that tile covers; a decoded tile is known by its index.                 *)
(***************************************************************************)
MaxWidth == 7

MaxHeight == 2

TileSizes == {2, 4}

PxStride == MaxWidth + MaxOf(TileSizes)

\* the pixel (i, j) of a level's image, a non-zero value that names the pixel
LevelPixel(level, i, j) == 1 + i + PxStride * j + PxStride * PxStride * level.overview

\* Raster::get_pixel(u, v) of the raster extract_tile_from_bytes gives for tile k
TileGetPixel(level, col_count, k, u, v) ==
  IF u >= level.tile_width \/ v >= level.tile_height THEN [some |-> FALSE]
  ELSE [some |-> TRUE,
        pixel |-> LevelPixel(level, (k % col_count) * level.tile_width + u,
                                    (k \div col_count) * level.tile_height + v)]

\* dimensions.n as f64 / d for the f64 d, which is +inf when d is zero
MinLevelDim(n, d) == IF FIsZero(d) THEN [inf |-> TRUE] ELSE [inf |-> FALSE, v |-> FCeil(FDiv(FFromInt(n), d))]

\* dim > (m as u32): the cast saturates, negative values to 0 and +inf to u32::MAX
ExceedsAsU32(dim, m) ==
  IF m.inf THEN FALSE ELSE IF m.v.s = 1 THEN dim > 0 ELSE FLt(m.v, FFromInt(dim))

\* render_level_from_crop: the index in cog.levels of the level it returns
RenderLevelFromCrop(levels, crop, dimensions) ==
  Only({ LET fits == {n \in 1..Len(levels) :
                        /\ ExceedsAsU32(levels[n].dimensions[1], m0)
                        /\ ExceedsAsU32(levels[n].dimensions[2], m1)}
         IN  IF fits = {} THEN 1 ELSE MaxOf(fits)
       : m0 \in {MinLevelDim(dimensions[1], FSub(crop.xmax, crop.xmin))},
         m1 \in {MinLevelDim(dimensions[2], FSub(crop.ymin, crop.ymax))} })

\* tile_info_from_indices: the indices whose tile_byte_range is Ok, in order
TileInfoFromIndices(level, indices) ==
  SelectSeq(indices, LAMBDA k : TileByteRange(level, k).ok)

\* get_tiles that keeps an entry for a tile whose read or decode failed
GetTilesKeepFailed(level, indices, outcome) ==
  {indices[n] : n \in 1..Len(indices)}

\* get_tiles: the indices in the tile cache, given the outcome of each tile's
\* read_range_exact and extract_tile_from_bytes
GetTiles(level, indices, outcome) ==
  LET infos == TileInfoFromIndices(level, indices)
  IN  {infos[n] : n \in {m \in 1..Len(infos) : outcome[infos[m]] = "ok"}}

\* the running sums x, x + d, x + d + d, ... of the render loops (x += dxdi)
RECURSIVE Accumulate(_, _, _)
Accumulate(x, d, n) ==
  IF n = 0 THEN << >>
  ELSE Only({ <<x>> \o Accumulate(x2, d, n - 1) : x2 \in {FAdd(x, d)} })

\* render_image_crop_from_tile_cache, the sampling: for output pixel (i, j), row j
\* and column i counted from 1, the tile and the pixel (u as u32, v as u32) in it
SamplePlan(level, crop, dimensions) ==
  Only({ [j \in 1..dimensions[2] |->
            [i \in 1..dimensions[1] |->
               Only({ IF r.ok THEN [hit |-> TRUE, tile |-> r.tile_index,
                                    u |-> FToNat(r.tile_x), v |-> FToNat(r.tile_y)]
                      ELSE [hit |-> FALSE]
                    : r \in {IndexFromImageCoords(level, xs[i], ys[j])} })] \o << >>
         ] \o << >>
       : xs \in {Accumulate(crop.xmin, FDiv(UnitSub(crop.xmax, crop.xmin),
                                             FFromInt(dimensions[1])), dimensions[1])},
         ys \in {Accumulate(crop.ymin, FDiv(UnitSub(crop.ymax, crop.ymin),
                                             FFromInt(dimensions[2])), dimensions[2])} })

\* render_image_crop_from_tile_cache, the copy: Raster::blank, then put_pixel of
\* each pixel the cache has (tile_cache is the set of cached tile indices)
ComposeFromPlan(plan, tile_cache, level) ==
  Only({ [j \in 1..Len(plan) |->
            [i \in 1..Len(plan[j]) |->
               LET p  == plan[j][i]
                   px == TileGetPixel(level, col_count, p.tile, p.u, p.v)
               IN  IF p.hit /\ p.tile \in tile_cache /\ px.some THEN px.pixel ELSE 0]]
       : col_count \in {ColCount(level)} })

\* Level::tile_bounds (index is 0-based): (left, top, right, bottom) as f64
TileBounds(level, index) ==
  Only({ [left   |-> FDiv(FMul(col, tw), w),
          top    |-> FDiv(FMul(row, th), h),
          right  |-> FDiv(FMul(FAdd(col, F1), tw), w),
          bottom |-> FDiv(FMul(FAdd(row, F1), th), h)]
       : <<col, row, tw, th, w, h>> \in
           { <<FFromInt(index % col_count), FFromInt(index \div col_count),
               FFromInt(level.tile_width), FFromInt(level.tile_height),
               FFromInt(level.dimensions[1]), FFromInt(level.dimensions[2])>>
             : col_count \in {ColCount(level)} } })

\* pixel_map.is_empty() that never sees an empty map
PixelMapNeverEmpty(pixel_map) == FALSE

\* pixel_map.is_empty()
PixelMapIsEmpty(pixel_map) == DOMAIN pixel_map = {}

\* project_pixel_map, the loops: transformed[n] is what transform_from_proj gave
\* for output pixel n = j * width + i + 1, an error or Ok((u, v)); the map takes a
\* tile index to its ((tile_x, tile_y), (i, j)) entries in the order pushed
PixelMapOf(level, transformed, dimensions) ==
  Only({ LET hit == {n \in 1..Len(hits) : hits[n].ok}
         IN  [k \in {hits[n].tile_index : n \in hit} |->
                LET mine == {n \in hit : hits[n].tile_index = k}
                    nth[m \in 1..Cardinality(mine)] ==
                      IF m = 1 THEN MinOf(mine) ELSE MinOf({n \in mine : n > nth[m - 1]})
                IN  [m \in 1..Cardinality(mine) |->
                       [from |-> <<hits[nth[m]].tile_x, hits[nth[m]].tile_y>>,
                        to   |-> <<(nth[m] - 1) % dimensions[1],
                                   (nth[m] - 1) \div dimensions[1]>>]] \o << >>]
       : hits \in { [n \in 1..Len(transformed) |->
                       IF transformed[n].ok
                       THEN IndexFromImageCoords(level, transformed[n].u, transformed[n].v)
                       ELSE [ok |-> FALSE]] \o << >> } })

\* project_pixel_map after the loops: RegionOutOfBounds for an empty map, unless
\* bounds_in_proj fails while the error is built
ProjectPixelMap(level, transformed, dimensions, bounds_ok) ==
  Only({ IF PixelMapIsEmpty(pixel_map)
         THEN [err |-> IF bounds_ok THEN "RegionOutOfBounds" ELSE "ProjectionError"]
         ELSE [err |-> "none", pixel_map |-> pixel_map]
       : pixel_map \in {PixelMapOf(level, transformed, dimensions)} })

\* render_pixel_map: Raster::blank, then put_pixel of each mapped pixel whose tile
\* is in the cache (tile_cache is the set of cached tile indices)
RenderPixelMap(pixel_map, level, tile_cache, dimensions) ==
  Only({ [j \in 1..dimensions[2] |->
            [i \in 1..dimensions[1] |->
               LET src == {<<k, m>> \in UNION {{k} \X DOMAIN pixel_map[k] : k \in DOMAIN pixel_map} :
                             /\ pixel_map[k][m].to = <<i - 1, j - 1>>
                             /\ k \in tile_cache}
               IN  IF src = {} THEN 0
                   ELSE Only({ IF px.some THEN px.pixel ELSE 0
                             : px \in { TileGetPixel(level, col_count, e[1],
                                          FToNat(pixel_map[e[1]][e[2]].from[1]),
                                          FToNat(pixel_map[e[1]][e[2]].from[2]))
                                        : e \in src } })] \o << >>] \o << >>
       : col_count \in {ColCount(level)} })

(***************************************************************************)
(* encode/mod.rs, raster/ops.rs, cog/mod.rs: the Encoder over a raster of  *)
(* one 8-bit sample per pixel, written uncompressed (the codec of          *)
(* Compression::Uncompressed copies the bytes), and CloudTiff::open of the *)
(* stream it wrote.  The GeoTIFF tags the Encoder adds to ifd0 and the     *)
(* projection CloudTiff::open builds from them are left out: no Level      *)
(* field and no tile byte is read from them.                               *)
(***************************************************************************)
\* TagId as u16
TagId ==
  [SubfileType |-> 254, ImageWidth |-> 256, ImageHeight |-> 257, BitsPerSample |-> 258,
   Compression |-> 259, PhotometricInterpretation |-> 262, SamplesPerPixel |-> 277,
   PlanarConfiguration |-> 284, Predictor |-> 317, TileWidth |-> 322, TileLength |-> 323,
   TileOffsets |-> 324, TileByteCounts |-> 325, ExtraSamples |-> 338, SampleFormat |-> 339]

\* Compression::Uncompressed, Predictor::No, PlanarConfiguration::Chunky,
\* PhotometricInterpretation::BlackIsZero and SampleFormat::Unsigned as u16
EnumCodes ==
  [Uncompressed |-> 1, PredictorNo |-> 1, Chunky |-> 1, BlackIsZero |-> 1, Unsigned |-> 1]

\* TagData::Short, TagData::Long, TagData::Long8
DataShort(vals) == [type |-> TagTypeShort, vals |-> vals]

DataLong(vals) == [type |-> TagTypeLong, vals |-> vals]

DataLong8(vals) == [type |-> TagTypeLong8, vals |-> vals]

RECURSIVE SumSeq(_)
SumSeq(s) == IF s = << >> THEN 0 ELSE s[1] + SumSeq(Tail(s))

\* Raster::new: the raster, or RasterError::BufferSize
RasterNew(dimensions, buffer, bits_per_sample) ==
  LET bits_per_pixel  == SumSeq(bits_per_sample)
      bytes_per_pixel == bits_per_pixel \div 8
  IN  IF Len(buffer) # dimensions[1] * dimensions[2] * bytes_per_pixel THEN [ok |-> FALSE]
      ELSE [ok |-> TRUE, dimensions |-> dimensions, buffer |-> buffer,
            bits_per_sample |-> bits_per_sample, bits_per_pixel |-> bits_per_pixel]

\* Raster::resize with ResizeFilter::Nearest.  u = (i as f32 * scale.0) as u32 with
\* scale.0 = full_width / width in f32; for the dimensions the Encoder passes
\* (width = full_width or full_width / 2, below 2^12) that is (i * full_width) / width.
ResizeNearest(raster, width, height) ==
  IF raster.bits_per_pixel % 8 # 0 THEN [ok |-> FALSE]
  ELSE LET bpp == raster.bits_per_pixel \div 8
           fw  == raster.dimensions[1]
           fh  == raster.dimensions[2]
       IN  RasterNew(<<width, height>>,
             [n \in 1..(width * height * bpp) |->
                LET p == (n - 1) \div bpp
                    v == ((p \div width) * fh) \div height
                    u == ((p % width) * fw) \div width
                IN  raster.buffer[(v * fw + u) * bpp + ((n - 1) % bpp) + 1]] \o << >>,
             raster.bits_per_sample)

\* Raster::get_region: the loops run over region.y.min..min(region.y.max, height - 1)
\* and region.x.min..min(region.x.max, width - 1), upper ends excluded
GetRegion(raster, region) ==
  IF raster.bits_per_pixel % 8 # 0 THEN [ok |-> FALSE]
  ELSE LET bpp    == raster.bits_per_pixel \div 8
           width  == region.xmax - region.xmin
           height == region.ymax - region.ymin
           j_end  == MinOf({region.ymax, raster.dimensions[2] - 1})
           i_end  == MinOf({region.xmax, raster.dimensions[1] - 1})
       IN  RasterNew(<<width, height>>,
             [n \in 1..(width * height * bpp) |->
                LET p == (n - 1) \div bpp
                    j == region.ymin + (p \div width)
                    i == region.xmin + (p % width)
                IN  IF j < j_end /\ i < i_end
                    THEN raster.buffer[(j * raster.dimensions[1] + i) * bpp + ((n - 1) % bpp) + 1]
                    ELSE 0] \o << >>,
             raster.bits_per_sample)

\* Compression::encode and Compression::decode, the Uncompressed arm (the Lzw and
\* DeflateAdobe arms are not modelled; any other code is CompressionNotSupported)
CompressionEncode(compression, bytes) ==
  IF compression = EnumCodes.Uncompressed THEN [ok |-> TRUE, bytes |-> bytes] ELSE [ok |-> FALSE]

CompressionDecode(compression, bytes) ==
  IF compression = EnumCodes.Uncompressed THEN [ok |-> TRUE, bytes |-> bytes] ELSE [ok |-> FALSE]

\* an encoder that writes no overview
OverviewLevelsNone(full_dims, tile_dimensions) == 0

\* ((w / tw).log2().max((h / th).log2()).ceil()) as usize: the least n >= 0 with
\* w <= tw * 2^n and h <= th * 2^n (a negative value casts to 0)
OverviewLevels(full_dims, tile_dimensions) ==
  MinOf({n \in 0..MaxOf({full_dims[1], full_dims[2]}) :
           /\ full_dims[1] <= tile_dimensions[1] * 2^n
           /\ full_dims[2] <= tile_dimensions[2] * 2^n})

\* (a as f32 / b as f32).ceil() as u32
CeilDiv(a, b) == (a + b - 1) \div b

RECURSIVE SetTags(_, _, _)
SetTags(ifd, entries, endian) ==
  IF entries = << >> THEN ifd
  ELSE Only({ SetTags(next, Tail(entries), endian)
            : next \in {SetTag(ifd, entries[1][1], entries[1][2], endian)} })

\* ifd.0.sort_by(|a, b| a.code.cmp(&b.code)), a stable sort
RECURSIVE SortTagsByCode(_)
SortTagsByCode(ifd) ==
  IF ifd = << >> THEN << >>
  ELSE Only({ LET later == {k \in 1..Len(rest) : rest[k].code >= ifd[1].code}
                  at    == IF later = {} THEN Len(rest) + 1 ELSE MinOf(later)
              IN  SubSeq(rest, 1, at - 1) \o <<ifd[1]>> \o SubSeq(rest, at, Len(rest))
            : rest \in {SortTagsByCode(Tail(ifd))} })

\* Encoder::encode, the tags of the IFD of level i, sorted
EncoderIfd(enc, ifd, i) ==
  LET width  == enc.raster.dimensions[1] \div 2^i
      height == enc.raster.dimensions[2] \div 2^i
      number_of_tiles == CeilDiv(width, enc.tile_dimensions[1])
                           * CeilDiv(height, enc.tile_dimensions[2])
      zeros  == [k \in 1..number_of_tiles |-> 0] \o << >>
      bps    == enc.raster.bits_per_sample
  IN  SortTagsByCode(SetTags(ifd,
        (IF i = 0 THEN << >> ELSE << <<TagId.SubfileType, DataLong(<<1>>)>> >>) \o
        << <<TagId.ImageWidth, DataLong(<<width>>)>>,
           <<TagId.ImageHeight, DataLong(<<height>>)>>,
           <<TagId.BitsPerSample, DataShort(bps)>>,
           <<TagId.Compression, DataShort(<<enc.compression>>)>>,
           <<TagId.PhotometricInterpretation, DataShort(<<EnumCodes.BlackIsZero>>)>>,
           <<TagId.SamplesPerPixel, DataShort(<<Len(bps)>>)>>,
           <<TagId.PlanarConfiguration, DataShort(<<EnumCodes.Chunky>>)>>,
           <<TagId.Predictor, DataShort(<<EnumCodes.PredictorNo>>)>>,
           <<TagId.TileWidth, DataShort(<<enc.tile_dimensions[1]>>)>>,
           <<TagId.TileLength, DataShort(<<enc.tile_dimensions[2]>>)>>,
           <<TagId.TileOffsets,
             IF enc.variant = "Normal" THEN DataLong(zeros) ELSE DataLong8(zeros)>>,
           <<TagId.TileByteCounts, DataLong(zeros)>>,
           <<TagId.SampleFormat, DataShort([k \in 1..Len(bps) |-> EnumCodes.Unsigned] \o << >>)>> >>,
        enc.endian))

\* Encoder::encode, the first loop: the Tiff with one IFD per level
RECURSIVE EncoderTiff(_, _, _, _)
EncoderTiff(enc, tiff, i, overview_levels) ==
  IF i > overview_levels THEN tiff
  ELSE Only({ EncoderTiff(enc, [t EXCEPT !.ifds[Len(t.ifds)] = EncoderIfd(enc, @, i)],
                          i + 1, overview_levels)
            : t \in {IF i = 0 THEN tiff ELSE AddIfd(tiff)} })

\* the region of tile (col, row) the tile loop asks get_region for
TileRegion(col, row, tile_dimensions) ==
  [xmin |-> col * tile_dimensions[1], ymin |-> row * tile_dimensions[2],
   xmax |-> (col + 1) * tile_dimensions[1], ymax |-> (row + 1) * tile_dimensions[2]]

\* the tile loop over one level image: each tile is cut out, compressed and
\* written at the stream position, its offset and byte count recorded
RECURSIVE WriteTiles(_, _, _, _, _)
WriteTiles(enc, img, tile_cols, k, acc) ==
  IF ~acc.ok \/ k >= tile_cols * CeilDiv(img.dimensions[2], enc.tile_dimensions[2]) THEN acc
  ELSE Only({ IF ~tile_raster.ok THEN [ok |-> FALSE]
              ELSE Only({ IF ~tile_bytes.ok THEN [ok |-> FALSE]
                          ELSE WriteTiles(enc, img, tile_cols, k + 1,
                                 [ok |-> TRUE,
                                  bytes |-> acc.bytes \o tile_bytes.bytes,
                                  tile_offsets |-> Append(acc.tile_offsets, Len(acc.bytes)),
                                  tile_byte_counts |-> Append(acc.tile_byte_counts,
                                                             Len(tile_bytes.bytes))])
                        : tile_bytes \in {CompressionEncode(enc.compression,
                                                            tile_raster.buffer)} })
            : tile_raster \in {GetRegion(img, TileRegion(k % tile_cols, k \div tile_cols,
                                                          enc.tile_dimensions))} })

\* Encoder::encode, the loop over the pyramid levels: [ok, bytes: the stream,
\* ifd_tile_offsets, ifd_tile_bytes]; level i is resized from level i - 1
RECURSIVE WriteLevels(_, _, _, _, _)
WriteLevels(enc, prev, i, overview_levels, acc) ==
  IF ~acc.ok \/ i > overview_levels THEN acc
  ELSE Only({
    IF ~img.ok THEN [ok |-> FALSE]
    ELSE Only({ IF ~w.ok THEN [ok |-> FALSE]
                ELSE WriteLevels(enc, img, i + 1, overview_levels,
                       [ok |-> TRUE, bytes |-> w.bytes,
                        ifd_tile_offsets |-> Append(acc.ifd_tile_offsets, w.tile_offsets),
                        ifd_tile_bytes   |-> Append(acc.ifd_tile_bytes, w.tile_byte_counts)])
              : w \in {WriteTiles(enc, img, CeilDiv(img.dimensions[1], enc.tile_dimensions[1]),
                                  0, [ok |-> TRUE, bytes |-> acc.bytes,
                                      tile_offsets |-> << >>, tile_byte_counts |-> << >>])} })
    : img \in {ResizeNearest(prev, enc.raster.dimensions[1] \div 2^i,
                             enc.raster.dimensions[2] \div 2^i)} })

\* writer.seek(SeekFrom::Start(pos)) and writer.write(data) on the stream
WriteAt(bytes, pos, data) ==
  [n \in 1..MaxOf({Len(bytes), pos + Len(data)}) |->
     IF n > pos /\ n <= pos + Len(data) THEN data[n - pos]
     ELSE IF n <= Len(bytes) THEN bytes[n] ELSE 0] \o << >>

\* a TiffOffsets that has recorded no field offset
OffsetsGetNone(ifd_offsets, code) == [some |-> FALSE]

\* offsets[i].get(&code) on the TiffOffsets of one IFD
OffsetsGet(ifd_offsets, code) ==
  LET hit == {k \in 1..Len(ifd_offsets) : ifd_offsets[k][1] = code}
  IN  IF hit = {} THEN [some |-> FALSE] ELSE [some |-> TRUE, v |-> ifd_offsets[MaxOf(hit)][2]]

\* Encoder::encode, the last loop: the tile offsets and byte counts of each level
\* are written over the zeros of its TileOffsets and TileByteCounts tags
RECURSIVE PatchLevels(_, _, _, _, _)
PatchLevels(enc, offsets, w, i, bytes) ==
  IF i > Len(offsets) THEN bytes
  ELSE Only({ PatchLevels(enc, offsets, w, i + 1,
                IF bc.some
                THEN WriteAt(b1, bc.v, EncodeAll(enc.endian, w.ifd_tile_bytes[i], 4))
                ELSE b1)
            : <<bc, b1>> \in
                { <<OffsetsGet(offsets[i], TagId.TileByteCounts),
                    IF to.some
                    THEN WriteAt(bytes, to.v,
                           EncodeAll(enc.endian, w.ifd_tile_offsets[i],
                                     IF enc.variant = "Normal" THEN 4 ELSE 8))
                    ELSE bytes>>
                  : to \in {OffsetsGet(offsets[i], TagId.TileOffsets)} } })

\* Encoder::encode: [ok, bytes: the stream written]
EncoderEncode(enc) ==
  Only({
    Only({ IF ~w.ok THEN [ok |-> FALSE]
           ELSE [ok |-> TRUE, bytes |-> PatchLevels(enc, te.offsets, w, 1, w.bytes)]
         : w \in {WriteLevels(enc, enc.raster, 0, overview_levels,
                              [ok |-> TRUE, bytes |-> te.bytes,
                               ifd_tile_offsets |-> << >>, ifd_tile_bytes |-> << >>])} })
    : <<overview_levels, te>> \in
        { <<n, TiffEncode(EncoderTiff(enc, TiffNew(enc.endian, enc.variant), 0, n))>>
          : n \in {OverviewLevels(enc.raster.dimensions, enc.tile_dimensions)} } })

\* ReadRange::read_range_to_vec on the bytes of a file: the bytes start..end, or
\* UnexpectedEof when the file ends before end
ReadRangeToVec(bytes, start, end) ==
  IF end > Len(bytes) THEN [ok |-> FALSE]
  ELSE [ok |-> TRUE, bytes |-> SubSeq(bytes, start + 1, end)]

\* Tag::values for the unsigned integer types: chunks_exact of the type's size
TagValues(tag) ==
  LET n == SizeInBytes(tag.datatype)
  IN  [k \in 1..(Len(tag.data) \div n) |->
         EndianDecode(tag.endian, SubSeq(tag.data, (k - 1) * n + 1, k * n))] \o << >>

\* Ifd::get_tag_values: MissingTag when no tag has the code
GetTagValues(ifd, code) ==
  LET hit == {k \in 1..Len(ifd) : ifd[k].code = code}
  IN  IF hit = {} THEN [ok |-> FALSE] ELSE [ok |-> TRUE, v |-> TagValues(ifd[MinOf(hit)])]

\* Ifd::get_tag_value: BadTag unless the tag holds exactly one value
GetTagValue(ifd, code) ==
  Only({ IF r.ok /\ Len(r.v) = 1 THEN [ok |-> TRUE, v |-> r.v[1]] ELSE [ok |-> FALSE]
       : r \in {GetTagValues(ifd, code)} })

\* Level::from_ifd: overview is None (here -1) until from_tiff_and_geo numbers it
LevelFromIfd(ifd, endian) ==
  Only({ IF ~(width.ok /\ height.ok /\ tile_width.ok /\ tile_height.ok /\ compression.ok
              /\ bits_per_sample.ok /\ offsets.ok /\ byte_counts.ok)
         THEN [ok |-> FALSE]
         ELSE IF Len(offsets.v) # Len(byte_counts.v) THEN [ok |-> FALSE]
         ELSE [ok |-> TRUE,
               level |-> [overview |-> -1, dimensions |-> <<width.v, height.v>>,
                          tile_width |-> tile_width.v, tile_height |-> tile_height.v,
                          compression |-> compression.v,
                          predictor |-> IF predictor.ok THEN predictor.v
                                        ELSE EnumCodes.PredictorNo,
                          bits_per_sample |-> bits_per_sample.v,
                          offsets |-> offsets.v, byte_counts |-> byte_counts.v]]
       : width \in {GetTagValue(ifd, TagId.ImageWidth)},
         height \in {GetTagValue(ifd, TagId.ImageHeight)},
         tile_width \in {GetTagValue(ifd, TagId.TileWidth)},
         tile_height \in {GetTagValue(ifd, TagId.TileLength)},
         compression \in {GetTagValue(ifd, TagId.Compression)},
         predictor \in {GetTagValue(ifd, TagId.Predictor)},
         bits_per_sample \in {GetTagValues(ifd, TagId.BitsPerSample)},
         offsets \in {GetTagValues(ifd, TagId.TileOffsets)},
         byte_counts \in {GetTagValues(ifd, TagId.TileByteCounts)} })

\* Level::megapixels
Megapixels(level) ==
  FDiv(FMul(FFromInt(level.dimensions[1]), FFromInt(level.dimensions[2])), FFromInt(1000000))

\* the filter_map of from_tiff_and_geo: the levels of the IFDs from_ifd accepts,
\* each with its megapixels
RECURSIVE LevelsOfIfds(_, _, _)
LevelsOfIfds(ifds, endian, i) ==
  IF i > Len(ifds) THEN << >>
  ELSE Only({ (IF r.ok THEN << [mp |-> Megapixels(r.level), level |-> r.level] >> ELSE << >>)
                \o LevelsOfIfds(ifds, endian, i + 1)
            : r \in {LevelFromIfd(ifds[i], endian)} })

\* the levels left in the order of the IFDs
SortLevelsKeepFileOrder(ls, sorted) == ls

\* levels.sort_by(|a, b| b.megapixels().total_cmp(&a.megapixels())): a stable sort,
\* an element goes before the first sorted element it is strictly larger than
RECURSIVE SortLevels(_, _)
SortLevels(ls, sorted) ==
  IF ls = << >> THEN sorted
  ELSE Only({ SortLevels(Tail(ls), SubSeq(sorted, 1, at - 1) \o <<ls[1]>>
                                     \o SubSeq(sorted, at, Len(sorted)))
            : at \in { LET smaller == {k \in 1..Len(sorted) : FLt(sorted[k].mp, ls[1].mp)}
                       IN  IF smaller = {} THEN Len(sorted) + 1 ELSE MinOf(smaller) } })

\* CloudTiff::from_tiff_and_geo: the levels, or NoLevels
FromTiffAndGeo(tiff) ==
  Only({ IF Len(sorted) = 0 THEN [err |-> "NoLevels"]
         ELSE [err |-> "none",
               levels |-> [i \in 1..Len(sorted) |->
                             [sorted[i].level EXCEPT !.overview = i - 1]] \o << >>]
       : sorted \in {SortLevels(LevelsOfIfds(tiff.ifds, tiff.endian, 1), << >>)} })

\* CloudTiff::open
CloudTiffOpen(bytes) ==
  Only({ IF tiff.err # "none" THEN [err |-> tiff.err] ELSE FromTiffAndGeo(tiff)
       : tiff \in {TiffOpen(bytes)} })

\* Predictor::predict, the No arm (Horizontal is not modelled)
Predict(predictor, buffer) ==
  IF predictor = EnumCodes.PredictorNo THEN [ok |-> TRUE, buffer |-> buffer] ELSE [ok |-> FALSE]

\* Level::extract_tile_from_bytes: the tile raster, or the error
ExtractTileFromBytes(level, bytes) ==
  Only({ IF ~d.ok THEN [ok |-> FALSE]
         ELSE Only({ IF ~p.ok THEN [ok |-> FALSE]
                     ELSE RasterNew(<<level.tile_width, level.tile_height>>, p.buffer,
                                    level.bits_per_sample)
                   : p \in {Predict(level.predictor, d.bytes)} })
       : d \in {CompressionDecode(level.compression, bytes)} })

(***************************************************************************)
(* State.  Each component of the library is a state machine of its own,    *)
(* held in one record variable; a specification runs one component and     *)
(* leaves the others idle.                                                 *)
(***************************************************************************)
VARIABLES
  tf,     \* a Tiff being built, encoded to a stream and opened again
  rd,     \* a render over an input crop, sync or async
  en,     \* an Encoder run and the reading back of its tiles
  tc,     \* a Level and a crop handed to tile_indices_within_image_crop
  cg,     \* the IFDs handed to CloudTiff::from_tiff_and_geo and its result
  mx,     \* callers of read_range on one mutex-wrapped stream
  op,     \* CloudTiff::open_from_async_range_reader and open_async
  pm,     \* a render over an output region: project_pixel_map
  fx      \* one call of a library function: its arguments and its result

vars == <<tf, rd, en, tc, cg, mx, op, pm, fx>>

Idle == [pc |-> "idle"]

\* the variables a specification leaves idle
notTf == <<rd, en, tc, cg, mx, op, pm, fx>>

notRd == <<tf, en, tc, cg, mx, op, pm, fx>>

notEn == <<tf, rd, tc, cg, mx, op, pm, fx>>

notTc == <<tf, rd, en, cg, mx, op, pm, fx>>

notCg == <<tf, rd, en, tc, mx, op, pm, fx>>

notMx == <<tf, rd, en, tc, cg, op, pm, fx>>

notOp == <<tf, rd, en, tc, cg, mx, pm, fx>>

notPm == <<tf, rd, en, tc, cg, mx, op, fx>>

notFx == <<tf, rd, en, tc, cg, mx, op, pm>>

(***************************************************************************)
(* SpecTiff: Tiff::new, add_ifd and set_tag build a Tiff; Tiff::encode     *)
(* writes it to a stream; Tiff::open reads the stream back.                *)
(***************************************************************************)
MaxIfds == 2

MaxTags == 2

TagCodes == {256, 257}

\* inline and out-of-line data for either variant: 0, 1, 4, 6 and 16 bytes
TagDatas ==
  { [type |-> TagTypeByte,    vals |-> << >>],
    [type |-> TagTypeUnknown, vals |-> <<9>>],
    [type |-> TagTypeShort,   vals |-> <<258, 3>>],
    [type |-> TagTypeShort,   vals |-> <<1, 2, 772>>],
    [type |-> TagTypeLong8,   vals |-> <<5, 66051>>] }

InitTiff ==
  /\ tf \in { [pc |-> "build", tiff |-> TiffNew(e, v), stream |-> << >>,
            opened |-> [err |-> "unopened"]] : e \in Endians, v \in TiffVariants }
  /\ rd = Idle /\ en = Idle /\ tc = Idle /\ cg = Idle /\ mx = Idle /\ op = Idle /\ pm = Idle /\ fx = Idle

TiffAddIfd ==
  /\ tf.pc = "build"
  /\ Len(tf.tiff.ifds) < MaxIfds
  /\ tf' = [tf EXCEPT !.tiff = AddIfd(@)]
  /\ UNCHANGED notTf

\* set_tag on the IFD that ifd0 or add_ifd handed out last
TiffSetTag ==
  /\ tf.pc = "build"
  /\ \E code \in TagCodes, data \in TagDatas :
       LET n   == Len(tf.tiff.ifds)
           ifd == SetTag(tf.tiff.ifds[n], code, data, tf.tiff.endian)
       IN  /\ Len(ifd) <= MaxTags
           /\ tf' = [tf EXCEPT !.tiff.ifds[n] = ifd]
  /\ UNCHANGED notTf

TiffEncodeStep ==
  /\ tf.pc = "build"
  /\ tf' = [tf EXCEPT !.pc = "encoded", !.stream = TiffEncode(tf.tiff).bytes]
  /\ UNCHANGED notTf

TiffOpenStep ==
  /\ tf.pc = "encoded"
  /\ tf' = [tf EXCEPT !.pc = "opened", !.opened = TiffOpen(tf.stream)]
  /\ UNCHANGED notTf

NextTiff == TiffAddIfd \/ TiffSetTag \/ TiffEncodeStep \/ TiffOpenStep

SpecTiff == InitTiff /\ [][NextTiff]_vars

SameTag(a, b) ==
  a.code = b.code /\ a.datatype = b.datatype /\ a.count = b.count /\ a.data = b.data

\* C1: opening the bytes Tiff::encode wrote gives a Tiff of the same endian and
\* variant, with the same number of IFDs and in each IFD the same tags in the
\* same order, equal in code, datatype, count and data bytes.
C1_RoundTrip ==
  tf.pc = "opened" =>
    /\ tf.opened.err = "none"
    /\ tf.opened.endian = tf.tiff.endian
    /\ tf.opened.variant = tf.tiff.variant
    /\ Len(tf.opened.ifds) = Len(tf.tiff.ifds)
    /\ \A i \in 1..Len(tf.tiff.ifds) :
         /\ Len(tf.opened.ifds[i]) = Len(tf.tiff.ifds[i])
         /\ \A k \in 1..Len(tf.tiff.ifds[i]) :
              SameTag(tf.opened.ifds[i][k], tf.tiff.ifds[i][k])

\* a BigTIFF of two IFDs, one tag stored in the entry and one stored out of line
C1_Witness ==
  /\ tf.pc = "opened"
  /\ tf.tiff.variant = "BigTiff"
  /\ Len(tf.tiff.ifds) = 2
  /\ \E k \in 1..Len(tf.tiff.ifds[1]) : Len(tf.tiff.ifds[1][k].data) > 8
  /\ \E k \in 1..Len(tf.tiff.ifds[2]) : Len(tf.tiff.ifds[2][k].data) \in 1..8
  /\ tf.opened.err = "none"
  /\ Len(tf.opened.ifds) = 2

(***************************************************************************)
(* SpecRender: RenderBuilder over the default unit crop at the exact       *)
(* resolution of the full image, rendered by render() or render_async().   *)
(***************************************************************************)
Modes == {"sync", "async"}

Outcomes == {"ok", "read_failed", "decode_failed"}

\* a level as Level::from_ifd builds it: one offset and byte count per tile
MkLevel(w, h, ts, ov) ==
  LET n == ((w + ts - 1) \div ts) * ((h + ts - 1) \div ts)
  IN  [dimensions |-> <<w, h>>, tile_width |-> ts, tile_height |-> ts, overview |-> ov,
       offsets     |-> [k \in 1..n |-> 64 * (ov + 1) + 8 * k],
       byte_counts |-> [k \in 1..n |-> 8]]

\* the pyramid: level 0 and, when the image allows it, one overview of half the size
MkLevels(w, h, ts) ==
  IF w >= 2 /\ h >= 2 THEN <<MkLevel(w, h, ts, 0), MkLevel(w \div 2, h \div 2, ts, 1)>>
  ELSE <<MkLevel(w, h, ts, 0)>>

\* RenderBuilder after renderer(), with_reader or with_async_reader and
\* with_exact_resolution(full_dimensions): region is InputCrop(Region::unit())
MkRender(mode, w, h, ts) ==
  Only({ [pc |-> "ready", mode |-> mode, levels |-> levels, crop |-> RegionUnit,
          resolution |-> <<w, h>>, level |-> n,
          plan |-> SamplePlan(levels[n], RegionUnit, <<w, h>>),
          indices |-> << >>, pending |-> {}, outcome |-> << >>, byte_results |-> {},
          cache |-> {}, result |-> "none", out |-> << >>]
       : <<levels, n>> \in { <<l, RenderLevelFromCrop(l, RegionUnit, <<w, h>>)>>
                             : l \in {MkLevels(w, h, ts)} } })

InitRender ==
  /\ rd \in { MkRender(mode, w, h, ts)
              : mode \in Modes, w \in 1..MaxWidth, h \in 1..MaxHeight, ts \in TileSizes }
  /\ tf = Idle /\ en = Idle /\ tc = Idle /\ cg = Idle /\ mx = Idle /\ op = Idle /\ pm = Idle /\ fx = Idle

\* the outcomes the reader and the file can give the tiles of a request
OutcomesOf(indices) == [{indices[n] : n \in 1..Len(indices)} -> Outcomes]

\* RenderBuilder<SyncReader>::render, InputCrop arm
RenderSync ==
  /\ rd.pc = "ready" /\ rd.mode = "sync"
  /\ \E indices \in {TileIndicesWithinImageCrop(rd.levels[rd.level], rd.crop)} :
       \E outcome \in OutcomesOf(indices) :
         LET tile_cache == GetTiles(rd.levels[rd.level], indices, outcome)
         IN  rd' = [rd EXCEPT !.pc = "done", !.indices = indices, !.outcome = outcome,
                              !.cache = tile_cache, !.result = "Ok",
                              !.out = ComposeFromPlan(rd.plan, tile_cache, rd.levels[rd.level])]
  /\ UNCHANGED notRd

\* render_async up to get_tiles_async spawning one read task per tile
AsyncSpawn ==
  /\ rd.pc = "ready" /\ rd.mode = "async"
  /\ \E indices \in {TileIndicesWithinImageCrop(rd.levels[rd.level], rd.crop)} :
       LET infos == TileInfoFromIndices(rd.levels[rd.level], indices)
       IN  rd' = [rd EXCEPT !.pc = "reading", !.indices = indices,
                            !.pending = {infos[n] : n \in 1..Len(infos)},
                            !.outcome = [k \in {} |-> "ok"]]
  /\ UNCHANGED notRd

\* one spawned task ends: read_range_exact_async gave the bytes or failed
AsyncReadTask ==
  /\ rd.pc = "reading"
  /\ \E k \in rd.pending, o \in {"ok", "read_failed"} :
       rd' = [rd EXCEPT !.pending = @ \ {k},
                        !.outcome = [t \in DOMAIN @ \cup {k} |-> IF t = k THEN o ELSE @[t]]]
  /\ UNCHANGED notRd

\* join_all when a failed task makes the whole batch fail
AsyncByteResultsAllOrNone(outcome) ==
  IF \E k \in DOMAIN outcome : outcome[k] # "ok" THEN {} ELSE DOMAIN outcome

\* join_all and the filter_map after it: the tiles whose bytes were read
AsyncByteResults(outcome) == {k \in DOMAIN outcome : outcome[k] = "ok"}

\* join_all returns; the tiles read are decoded in parallel and the Ok results
\* are inserted in the tile cache
AsyncDecode ==
  /\ rd.pc = "reading" /\ rd.pending = {}
  /\ \E bad \in SUBSET AsyncByteResults(rd.outcome) :
       rd' = [rd EXCEPT !.pc = "decoded",
                        !.byte_results = AsyncByteResults(rd.outcome),
                        !.outcome = [t \in DOMAIN @ |-> IF t \in bad THEN "decode_failed" ELSE @[t]],
                        !.cache = AsyncByteResults(rd.outcome) \ bad]
  /\ UNCHANGED notRd

\* render_async after get_tiles_async: render_image_crop_from_tile_cache
AsyncComposite ==
  /\ rd.pc = "decoded"
  /\ rd' = [rd EXCEPT !.pc = "done", !.result = "Ok",
                      !.out = ComposeFromPlan(rd.plan, rd.cache, rd.levels[rd.level])]
  /\ UNCHANGED notRd

NextRender == RenderSync \/ AsyncSpawn \/ AsyncReadTask \/ AsyncDecode \/ AsyncComposite

SpecRender == InitRender /\ [][NextRender]_vars

RenderDone(mode) == rd.pc = "done" /\ rd.mode = mode

\* C2: a sync render of the unit crop at the full resolution, every tile read and
\* decoded, gives the level-0 image: output pixel (i, j) is level-0 pixel (i, j).
C2_Identity ==
  (RenderDone("sync") /\ \A k \in DOMAIN rd.outcome : rd.outcome[k] = "ok") =>
    \A j \in 1..rd.resolution[2], i \in 1..rd.resolution[1] :
      rd.out[j][i] = LevelPixel(rd.levels[1], i - 1, j - 1)

\* what a finished render must hold in each output pixel: zero when the source
\* tile of the pixel failed, the tile's pixel when it was read and decoded
PartialRenderOk ==
  /\ rd.result = "Ok"
  /\ \E col_count \in {ColCount(rd.levels[rd.level])} :
       \A j \in 1..rd.resolution[2], i \in 1..rd.resolution[1] :
         LET p == rd.plan[j][i]
         IN  (p.hit /\ p.tile \in DOMAIN rd.outcome) =>
               rd.out[j][i] =
                 IF rd.outcome[p.tile] = "ok"
                 THEN TileGetPixel(rd.levels[rd.level], col_count, p.tile, p.u, p.v).pixel
                 ELSE 0

\* C6: render_async returns Ok whatever subset of the tile reads and decodes
\* failed; a pixel whose source tile failed is zero, a pixel whose source tile
\* succeeded carries that tile's pixel, whatever happened to the other tiles.
C6_AsyncPartialRender == RenderDone("async") => PartialRenderOk

\* an async render that ended with a failed read, a failed decode and a good tile
C6_Witness ==
  /\ RenderDone("async")
  /\ rd.result = "Ok"
  /\ \E a, b, c \in DOMAIN rd.outcome :
       /\ rd.outcome[a] = "read_failed"
       /\ rd.outcome[b] = "decode_failed"
       /\ rd.outcome[c] = "ok"
  /\ \E i \in 1..rd.resolution[1] : rd.out[1][i] = 0
  /\ \E i \in 1..rd.resolution[1] : rd.out[1][i] # 0

MaxEncWidth == 5

MaxEncHeight == 3

\* the byte of source pixel (i, j) of a raster w pixels wide: non-zero, and
\* different for each pixel
SourcePixel(w, i, j) == 1 + i + w * j

\* Encoder::from_image of a w x h 8-bit grayscale image, with_tile_size(ts),
\* with_big_endian, with_big_tiff, with_compression(Uncompressed)
MkEncoder(w, h, ts, endian, variant) ==
  [raster |-> RasterNew(<<w, h>>,
                [n \in 1..(w * h) |-> SourcePixel(w, (n - 1) % w, (n - 1) \div w)] \o << >>,
                <<8>>),
   endian |-> endian, variant |-> variant, compression |-> EnumCodes.Uncompressed,
   tile_dimensions |-> <<ts, ts>>]

InitEncode ==
  /\ en \in { [pc |-> "new", enc |-> MkEncoder(w, h, ts, e, v), file |-> [ok |-> FALSE],
             cog |-> [err |-> "unopened"], k |-> 0, tile |-> [ok |-> FALSE]]
            : w \in 1..MaxEncWidth, h \in 1..MaxEncHeight, ts \in TileSizes,
              e \in Endians, v \in TiffVariants }
  /\ tf = Idle /\ rd = Idle /\ tc = Idle /\ cg = Idle /\ mx = Idle /\ op = Idle /\ pm = Idle /\ fx = Idle

\* Encoder::encode to an empty writer
EncodeStep ==
  /\ en.pc = "new"
  /\ en' = [en EXCEPT !.pc = "encoded", !.file = EncoderEncode(en.enc)]
  /\ UNCHANGED notEn

\* CloudTiff::open of the stream written
CogOpenStep ==
  /\ en.pc = "encoded" /\ en.file.ok
  /\ en' = [en EXCEPT !.pc = "opened", !.cog = CloudTiffOpen(en.file.bytes)]
  /\ UNCHANGED notEn

\* tile k of level 0: tile_byte_range, read_range_to_vec, extract_tile_from_bytes
ReadTileStep ==
  /\ en.pc \in {"opened", "read"} /\ en.cog.err = "none"
  /\ \E k \in 0..(Len(en.cog.levels[1].offsets) - 1) :
       \E range \in {TileByteRange(en.cog.levels[1], k)} :
         /\ range.ok
         /\ \E bytes \in {ReadRangeToVec(en.file.bytes, range.start, range.end)} :
              en' = [en EXCEPT !.pc = "read", !.k = k,
                               !.tile = IF bytes.ok
                                        THEN ExtractTileFromBytes(en.cog.levels[1], bytes.bytes)
                                        ELSE [ok |-> FALSE]]
  /\ UNCHANGED notEn

NextEncode == EncodeStep \/ CogOpenStep \/ ReadTileStep

SpecEncode == InitEncode /\ [][NextEncode]_vars

\* C3: tile k of level 0 of the reopened file, read at its byte range and decoded,
\* holds the source pixels of the rectangle the tile covers, and zero outside the image.
C3_TilesEqualSource ==
  en.pc = "read" =>
    /\ en.tile.ok
    /\ LET w    == en.enc.raster.dimensions[1]
           h    == en.enc.raster.dimensions[2]
           tw   == en.cog.levels[1].tile_width
           th   == en.cog.levels[1].tile_height
           cols == CeilDiv(w, tw)
       IN  \A u \in 0..(tw - 1), v \in 0..(th - 1) :
             LET i == (en.k % cols) * tw + u
                 j == (en.k \div cols) * th + v
             IN  en.tile.buffer[v * tw + u + 1] =
                   IF i < w /\ j < h THEN en.enc.raster.buffer[j * w + i + 1] ELSE 0

\* what the code does instead: every tile decodes, and holds the source pixels of
\* its rectangle except those of the last row and the last column of the image
C3_LastRowAndColumnLost ==
  en.pc = "read" =>
    /\ en.tile.ok
    /\ LET w    == en.enc.raster.dimensions[1]
           h    == en.enc.raster.dimensions[2]
           tw   == en.cog.levels[1].tile_width
           th   == en.cog.levels[1].tile_height
           cols == CeilDiv(w, tw)
       IN  \A u \in 0..(tw - 1), v \in 0..(th - 1) :
             LET i == (en.k % cols) * tw + u
                 j == (en.k \div cols) * th + v
             IN  en.tile.buffer[v * tw + u + 1] =
                   IF i < w - 1 /\ j < h - 1 THEN en.enc.raster.buffer[j * w + i + 1] ELSE 0

(***************************************************************************)
(* SpecCrop: a crop given to RenderBuilder::of_crop, the tile indices      *)
(* Level::tile_indices_within_image_crop returns for it, and the           *)
(* Level::tile_bounds of those tiles.  Crop coordinates are quarters,      *)
(* which f64 holds exactly.                                                *)
(***************************************************************************)
Quarters == 0..4

\* the crops of the model as (min_x, min_y, max_x, max_y) in quarters
CropQuarters ==
  { <<x0, y[1], x1, y[2]>> : x0 \in Quarters, x1 \in Quarters,
                             y \in {<<0, 4>>, <<1, 3>>, <<2, 2>>, <<2, 4>>, <<0, 1>>} }
    \cap { q \in Quarters \X Quarters \X Quarters \X Quarters : q[1] <= q[3] }

\* the levels of the model as (width, height, tile size): a 4x4 grid of whole
\* tiles and a 4x3 grid whose last column and row are partial
CropLevels == { <<8, 8, 2>>, <<7, 5, 2>> }

QuarterOf(a) == FDiv(FFromInt(a), FFromInt(4))

InitCrop ==
  /\ tc \in { [pc |-> "ready", level |-> MkLevel(l[1], l[2], l[3], 0), q |-> q,
             crop |-> RegionNewSaturated(QuarterOf(q[1]), QuarterOf(q[2]),
                                         QuarterOf(q[3]), QuarterOf(q[4])),
             indices |-> << >>, bounds |-> << >>]
            : l \in CropLevels, q \in CropQuarters }
  /\ tf = Idle /\ rd = Idle /\ en = Idle /\ cg = Idle /\ mx = Idle /\ op = Idle /\ pm = Idle /\ fx = Idle

\* Level::tile_indices_within_image_crop(crop)
TileIndicesStep ==
  /\ tc.pc = "ready"
  /\ tc' = [tc EXCEPT !.pc = "indexed",
                      !.indices = TileIndicesWithinImageCrop(tc.level, tc.crop)]
  /\ UNCHANGED notTc

\* Level::tile_bounds of each index returned
TileBoundsStep ==
  /\ tc.pc = "indexed"
  /\ tc' = [tc EXCEPT !.pc = "bounded",
                      !.bounds = [n \in 1..Len(tc.indices) |->
                                    TileBounds(tc.level, tc.indices[n])] \o << >>]
  /\ UNCHANGED notTc

NextCrop == TileIndicesStep \/ TileBoundsStep

SpecCrop == InitCrop /\ [][NextCrop]_vars

\* the grid and the tile range of the crop in exact arithmetic: col_min and row_min
\* the floor of the left and top tile coordinate, col_max and row_max the ceiling
\* of the right and bottom tile coordinate clamped to the grid
CropRange ==
  LET w  == tc.level.dimensions[1]
      h  == tc.level.dimensions[2]
      tw == tc.level.tile_width
      th == tc.level.tile_height
      col_count == (w + tw - 1) \div tw
      row_count == (h + th - 1) \div th
  IN  [col_count |-> col_count,
       col_min |-> (tc.q[1] * w) \div (4 * tw),
       row_min |-> (tc.q[2] * h) \div (4 * th),
       col_max |-> MinOf({(tc.q[3] * w + 4 * tw - 1) \div (4 * tw), col_count}),
       row_max |-> MinOf({(tc.q[4] * h + 4 * th - 1) \div (4 * th), row_count})]

\* the indices are row * col_count + col over the range, in row-major order, and
\* their number is (col_max - col_min) * (row_max - row_min)
IndicesAreTheRange ==
  LET r    == CropRange
      ncol == r.col_max - r.col_min
      nrow == r.row_max - r.row_min
  IN  /\ ncol >= 0 /\ nrow >= 0
      /\ Len(tc.indices) = ncol * nrow
      /\ \A n \in 1..Len(tc.indices) :
           tc.indices[n] = (r.row_min + ((n - 1) \div ncol)) * r.col_count
                             + r.col_min + ((n - 1) % ncol)

\* every point of the crop lies in the tile_bounds of a returned tile: the tiles
\* are a block of the grid, so the block is not empty and reaches each crop edge
BoundsCoverCrop ==
  /\ tc.bounds # << >>
  /\ \E n \in 1..Len(tc.bounds) : FLe(tc.bounds[n].left, tc.crop.xmin)
  /\ \E n \in 1..Len(tc.bounds) : FLe(tc.bounds[n].top, tc.crop.ymin)
  /\ \E n \in 1..Len(tc.bounds) : FLe(tc.crop.xmax, tc.bounds[n].right)
  /\ \E n \in 1..Len(tc.bounds) : FLe(tc.crop.ymax, tc.bounds[n].bottom)

\* C4: the indices returned are exactly those of the tile range of the crop, in
\* row-major order, (col_max - col_min) * (row_max - row_min) of them; the union
\* of their tile_bounds contains the crop; a 4x4 grid and the crop
\* (0.25, 0.25, 0.75, 0.75) give 5, 6, 9, 10.
C4_IndicesCoverCrop ==
  tc.pc = "bounded" =>
    /\ IndicesAreTheRange
    /\ BoundsCoverCrop
    /\ (tc.level.dimensions = <<8, 8>> /\ tc.q = <<1, 1, 3, 3>>) => tc.indices = <<5, 6, 9, 10>>

\* the part of C4 the code keeps: the range, the order, the number, the example
C4_IndicesExact ==
  tc.pc = "bounded" =>
    /\ IndicesAreTheRange
    /\ (tc.level.dimensions = <<8, 8>> /\ tc.q = <<1, 1, 3, 3>>) => tc.indices = <<5, 6, 9, 10>>

(***************************************************************************)
(* SpecLevels: a Tiff whose IFDs come in any order, some of them not COG   *)
(* levels, handed to CloudTiff::from_tiff_and_geo directly or, written to  *)
(* a stream, to CloudTiff::open.                                           *)
(***************************************************************************)
MaxLevelIfds == 3

\* the IFDs of the model as (width, height, tile size): two of them of the same
\* number of pixels; <<0, 0, 0>> stands for an IFD without tile tags
IfdShapes == { <<4, 4, 2>>, <<2, 1, 2>>, <<1, 2, 2>>, <<0, 0, 0>> }

\* an IFD with the tags Level::from_ifd reads, or a stripped image's IFD
MkLevelIfd(shape, endian) ==
  IF shape[3] = 0
  THEN SetTags(<< >>, << <<TagId.ImageWidth, DataLong(<<3>>)>>,
                         <<TagId.ImageHeight, DataLong(<<3>>)>> >>, endian)
  ELSE LET n == CeilDiv(shape[1], shape[3]) * CeilDiv(shape[2], shape[3])
       IN  SetTags(<< >>,
             << <<TagId.ImageWidth, DataLong(<<shape[1]>>)>>,
                <<TagId.ImageHeight, DataLong(<<shape[2]>>)>>,
                <<TagId.BitsPerSample, DataShort(<<8>>)>>,
                <<TagId.Compression, DataShort(<<EnumCodes.Uncompressed>>)>>,
                <<TagId.TileWidth, DataShort(<<shape[3]>>)>>,
                <<TagId.TileLength, DataShort(<<shape[3]>>)>>,
                <<TagId.TileOffsets, DataLong([k \in 1..n |-> 256 + 4 * k] \o << >>)>>,
                <<TagId.TileByteCounts, DataLong([k \in 1..n |-> 4] \o << >>)>> >>,
             endian)

ShapeSeqs == UNION { [1..n -> IfdShapes] : n \in 1..MaxLevelIfds }

InitLevels ==
  /\ cg \in { Only({ [pc |-> "ready", shapes |-> shapes, tiff |-> t,
                     stream |-> TiffEncode(t).bytes, via |-> "none",
                     result |-> [err |-> "unopened"]]
                   : t \in {[endian |-> e, variant |-> "Normal",
                             ifds |-> [i \in 1..Len(shapes) |->
                                         MkLevelIfd(shapes[i], e)] \o << >>]} })
            : shapes \in ShapeSeqs, e \in Endians }
  /\ tf = Idle /\ rd = Idle /\ en = Idle /\ tc = Idle /\ mx = Idle /\ op = Idle /\ pm = Idle /\ fx = Idle

\* CloudTiff::from_tiff_and_geo(tiff, geo)
FromTiffAndGeoStep ==
  /\ cg.pc = "ready"
  /\ cg' = [cg EXCEPT !.pc = "done", !.via = "tiff", !.result = FromTiffAndGeo(cg.tiff)]
  /\ UNCHANGED notCg

\* CloudTiff::open(stream)
CloudTiffOpenStep ==
  /\ cg.pc = "ready"
  /\ cg' = [cg EXCEPT !.pc = "done", !.via = "stream", !.result = CloudTiffOpen(cg.stream)]
  /\ UNCHANGED notCg

NextLevels == FromTiffAndGeoStep \/ CloudTiffOpenStep

SpecLevels == InitLevels /\ [][NextLevels]_vars

\* C5: a CloudTiff that from_tiff_and_geo or open returned has at least one level,
\* no level has more megapixels than the level before it, and levels[i].overview
\* is Some(i).
C5_LevelsSorted ==
  (cg.pc = "done" /\ cg.result.err = "none") =>
    /\ Len(cg.result.levels) >= 1
    /\ \A i \in 1..(Len(cg.result.levels) - 1) :
         ~FLt(Megapixels(cg.result.levels[i]), Megapixels(cg.result.levels[i + 1]))
    /\ \A i \in 1..Len(cg.result.levels) : cg.result.levels[i].overview = i - 1

\* a file whose first IFD is not a level and whose levels come smallest first,
\* two of them of equal size, opened from the stream
C5_Witness ==
  /\ cg.pc = "done" /\ cg.via = "stream" /\ cg.result.err = "none"
  /\ cg.shapes = <<(<<0, 0, 0>>), (<<2, 1, 2>>), (<<4, 4, 2>>)>>
  /\ Len(cg.result.levels) = 2
  /\ cg.result.levels[1].dimensions = <<4, 4>>
  /\ cg.result.levels[2].dimensions = <<2, 1>>

(***************************************************************************)
(* SpecMutex: callers of read_range (Mutex<R>) or read_range_async         *)
(* (TokioMutex<R>) on one seekable stream.  A call locks, seeks to its     *)
(* start, reads, and drops the guard when it returns.                      *)
(***************************************************************************)
NumCallers == 2

Callers == 1..NumCallers

\* the bytes of the underlying source
SourceBytes == <<11, 12, 13, 14>>

\* the start and the buffer length of a call; a start at the end reads nothing
Starts == 0..Len(SourceBytes)

BufLens == 1..2

\* the mutex hands the guard to one caller at a time
LockNeverHeld(holder) == TRUE

LockIsFree(holder) == holder = 0

InitMutex ==
  /\ mx \in { [mode |-> m, pos |-> p, holder |-> 0,
             pc    |-> [c \in Callers |-> "idle"],
             start |-> [c \in Callers |-> 0],
             len   |-> [c \in Callers |-> 1],
             res   |-> [c \in Callers |-> [ok |-> FALSE, bytes |-> << >>]]]
            : m \in Modes, p \in Starts }
  /\ tf = Idle /\ rd = Idle /\ en = Idle /\ tc = Idle /\ cg = Idle /\ op = Idle /\ pm = Idle /\ fx = Idle

\* a caller invokes read_range(start, buf) and reaches self.lock()
MutexCall ==
  /\ \E c \in Callers, start \in Starts, len \in BufLens :
       /\ mx.pc[c] \in {"idle", "done"}
       /\ mx' = [mx EXCEPT !.pc[c] = "lock", !.start[c] = start, !.len[c] = len,
                           !.res[c] = [ok |-> FALSE, bytes |-> << >>]]
  /\ UNCHANGED notMx

\* self.lock() returns the guard
MutexLock ==
  /\ \E c \in Callers :
       /\ mx.pc[c] = "lock"
       /\ LockIsFree(mx.holder)
       /\ mx' = [mx EXCEPT !.pc[c] = "seek", !.holder = c]
  /\ UNCHANGED notMx

\* locked_self.seek(SeekFrom::Start(start))
MutexSeek ==
  /\ \E c \in Callers :
       /\ mx.pc[c] = "seek"
       /\ mx' = [mx EXCEPT !.pc[c] = "read", !.pos = mx.start[c]]
  /\ UNCHANGED notMx

\* locked_self.read(buf), which may fill less than the buffer, or read_exact(buf),
\* which fails at the end of the source; the call returns and the guard is dropped
MutexRead ==
  /\ \E c \in Callers :
       /\ mx.pc[c] = "read"
       /\ LET avail == MinOf({mx.len[c], Len(SourceBytes) - mx.pos})
          IN  \E n \in (IF mx.mode = "async" \/ avail = 0 THEN {avail} ELSE 1..avail) :
                mx' = [mx EXCEPT !.pc[c] = "done", !.holder = 0, !.pos = mx.pos + n,
                                 !.res[c] = IF mx.mode = "async" /\ n < mx.len[c]
                                            THEN [ok |-> FALSE, bytes |-> << >>]
                                            ELSE [ok |-> TRUE,
                                                  bytes |-> SubSeq(SourceBytes, mx.pos + 1,
                                                                   mx.pos + n)]]
  /\ UNCHANGED notMx

NextMutex == MutexCall \/ MutexLock \/ MutexSeek \/ MutexRead

SpecMutex == InitMutex /\ [][NextMutex]_vars

\* C8: between the seek and the read of a call the cursor stays at the call's start
\* and no other call is at its seek or read; a call that returned Ok returned the
\* bytes of the source that begin at its start, all of its buffer when async.
C8_ReadsOwnRange ==
  \A c \in Callers :
    /\ mx.pc[c] = "read" => (mx.pos = mx.start[c] /\ mx.holder = c)
    /\ mx.pc[c] \in {"seek", "read"} =>
         \A d \in Callers \ {c} : mx.pc[d] \notin {"seek", "read"}
    /\ (mx.pc[c] = "done" /\ mx.res[c].ok) =>
         /\ mx.res[c].bytes = SubSeq(SourceBytes, mx.start[c] + 1,
                                     mx.start[c] + Len(mx.res[c].bytes))
         /\ mx.mode = "async" => Len(mx.res[c].bytes) = mx.len[c]
         /\ mx.start[c] < Len(SourceBytes) => mx.res[c].bytes # << >>

\* caller 1 returned the two bytes at offset 2 while caller 2, which asked for
\* offset 0, has seeked and not yet read
C8_Witness ==
  /\ mx.pc[1] = "done" /\ mx.res[1].ok /\ mx.start[1] = 2 /\ mx.res[1].bytes = <<13, 14>>
  /\ mx.pc[2] = "read" /\ mx.start[2] = 0 /\ mx.pos = 0

(***************************************************************************)
(* SpecOpen: CloudTiff::open_from_async_range_reader over an               *)
(* AsyncReadRange and CloudTiff::open_async over an AsyncRead.  A fetch    *)
(* may fail, and may return fewer bytes than asked for.                    *)
(***************************************************************************)
FetchSize == 4096

MaxAttempts == 10

\* the number of bytes a read may return short of the buffer
ChunkSizes == {16, FetchSize}

\* a COG of one 2x2 tile as the Encoder writes it
SmallCog == EncoderEncode(MkEncoder(2, 2, 2, "Little", "Normal")).bytes

\* the sources: empty, the COG cut in its header and in its IFD, the whole COG,
\* bytes that are no TIFF, and a TIFF whose only IFD is no level
OpenSources ==
  { << >>, SubSeq(SmallCog, 1, 3), SubSeq(SmallCog, 1, 100), SmallCog,
    <<80, 75, 3, 4, 20, 0, 0, 0>>, TiffEncode(TiffNew("Big", "BigTiff")).bytes }

\* Self::open(&mut Cursor::new(&buffer)) as the loop of open_*async sees it
OpenOfBuffer(buffer) ==
  Only({ IF r.err = "none" THEN "Ok"
         ELSE IF r.err = "ReadError" THEN "ReadError(UnexpectedEof)" ELSE r.err
       : r \in {CloudTiffOpen(buffer)} })

\* what a fetch of up to FetchSize bytes gives when rem bytes are left: an io
\* error, or Ok(n)
FetchOutcomes(rem) ==
  {[ok |-> FALSE, n |-> 0]} \cup {[ok |-> TRUE, n |-> MinOf({c, rem})] : c \in ChunkSizes}

\* one iteration of the `for _i in 0..10` loop, the fetch having given f from the
\* source position start; open_async breaks when the read returns 0
OpenIterate(o, f, start, break_on_zero) ==
  IF ~f.ok
  THEN [o EXCEPT !.pc = "returned", !.fetches = @ + 1, !.result = "ReadError(Other)"]
  ELSE IF break_on_zero /\ f.n = 0
  THEN [o EXCEPT !.pc = "returned", !.fetches = @ + 1, !.exhausted = TRUE]
  ELSE Only({ [o EXCEPT !.pc = IF outcome = "ReadError(UnexpectedEof)" /\ o.i + 1 < MaxAttempts
                               THEN "loop" ELSE "returned",
                        !.i = @ + 1, !.fetches = @ + 1,
                        !.cursor = @ + f.n,
                        !.exhausted = @ \/ f.n = 0,
                        !.sizes = Append(@, f.n),
                        !.buffer = buffer,
                        !.parses = Append(@, outcome),
                        !.result = outcome]
            : <<buffer, outcome>> \in
                { <<b, OpenOfBuffer(b)>>
                  : b \in {o.buffer \o SubSeq(o.file, start + 1, start + f.n)} } })

InitOpen ==
  /\ op \in { [pc |-> "loop", kind |-> k, file |-> f, buffer |-> << >>, cursor |-> 0, i |-> 0,
             fetches |-> 0, sizes |-> << >>, parses |-> << >>, exhausted |-> FALSE,
             result |-> "TODO"]
            : k \in {"range_reader", "stream"}, f \in OpenSources }
  /\ tf = Idle /\ rd = Idle /\ en = Idle /\ tc = Idle /\ cg = Idle /\ mx = Idle /\ pm = Idle /\ fx = Idle

\* open_from_async_range_reader: source.read_range_async(buffer.len(), &mut bytes)
OpenRangeFetch ==
  /\ op.pc = "loop" /\ op.kind = "range_reader"
  /\ \E f \in FetchOutcomes(Len(op.file) - Len(op.buffer)) :
       op' = OpenIterate(op, f, Len(op.buffer), FALSE)
  /\ UNCHANGED notOp

\* open_async: source.read(&mut bytes) at the position of the stream
OpenStreamFetch ==
  /\ op.pc = "loop" /\ op.kind = "stream"
  /\ \E f \in FetchOutcomes(Len(op.file) - op.cursor) :
       op' = OpenIterate(op, f, op.cursor, TRUE)
  /\ UNCHANGED notOp

NextOpen == OpenRangeFetch \/ OpenStreamFetch

SpecOpen == InitOpen /\ [][NextOpen]_vars

IsReadError(result) == result \in {"ReadError(UnexpectedEof)", "ReadError(Other)"}

\* the shape of the retry loop: at most 10 fetches of at most 4096 bytes, the
\* buffer a prefix of the source, every parse before the last one an UnexpectedEof,
\* and any other parse result returned at once
RetryShape ==
  /\ op.fetches <= MaxAttempts
  /\ \A k \in 1..Len(op.sizes) : op.sizes[k] <= FetchSize
  /\ op.buffer = SubSeq(op.file, 1, Len(op.buffer))
  /\ \A k \in 1..(Len(op.parses) - 1) : op.parses[k] = "ReadError(UnexpectedEof)"
  /\ (op.pc = "loop" /\ op.parses # << >>) =>
       op.parses[Len(op.parses)] = "ReadError(UnexpectedEof)"
  /\ (op.pc = "returned" /\ op.parses # << >>
        /\ op.parses[Len(op.parses)] # "ReadError(UnexpectedEof)") =>
       op.result = op.parses[Len(op.parses)]

\* C9: the retry loop has that shape, and the call returns a ReadError when the
\* source is exhausted or the 10th attempt still ends in UnexpectedEof.
C9_BoundedRetry ==
  /\ RetryShape
  /\ (op.pc = "returned"
        /\ (op.exhausted
              \/ (op.i = MaxAttempts /\ op.parses[MaxAttempts] = "ReadError(UnexpectedEof)"))) =>
       IsReadError(op.result)

\* what the code does: the same, except that open_async returns the placeholder
\* error TODO when the first read finds the source empty
C9_ExceptEmptyStream ==
  /\ RetryShape
  /\ (op.pc = "returned"
        /\ (op.exhausted
              \/ (op.i = MaxAttempts /\ op.parses[MaxAttempts] = "ReadError(UnexpectedEof)"))) =>
       \/ IsReadError(op.result)
       \/ op.kind = "stream" /\ op.file = << >> /\ op.result = "TODO"

(***************************************************************************)
(* SpecRegion: RenderBuilder<SyncReader>::render over an OutputRegion of a *)
(* COG of one level.  The projection library is the environment: whether   *)
(* the EPSG code is known, whether the corners of the region and the bounds *)
(* of the COG transform, and what each output pixel transforms to.         *)
(***************************************************************************)
\* the resolutions of the model: no pixel, one pixel, two pixels
RegionDims == { <<0, 1>>, <<1, 1>>, <<2, 1>> }

\* what transform_from_proj gives for a pixel, image coordinates in quarters:
\* an error, two corners of the image, its centre, a point left of it, a point below it
PixelImages ==
  {[ok |-> FALSE, u |-> 0, v |-> 0]}
    \cup {[ok |-> TRUE, u |-> c[1], v |-> c[2]]
          : c \in {<<0, 0>>, <<4, 4>>, <<2, 2>>, <<-1, 2>>, <<2, 5>>}}

InitRegion ==
  /\ pm \in { [pc |-> "ready", dims |-> d, level |-> MkLevel(4, 4, 2, 0),
             epsg_ok |-> e, corners_ok |-> c, bounds_ok |-> b, px |-> px,
             pixel_map |-> << >>, outcome |-> << >>, result |-> "none", out |-> << >>]
            : d \in RegionDims, e \in BOOLEAN, c \in BOOLEAN, b \in BOOLEAN,
              px \in UNION { [1..(d[1] * d[2]) -> PixelImages] : d \in RegionDims } }
  /\ Len(pm.px) = pm.dims[1] * pm.dims[2]
  /\ tf = Idle /\ rd = Idle /\ en = Idle /\ tc = Idle /\ cg = Idle /\ mx = Idle /\ op = Idle /\ fx = Idle

\* render, OutputRegion arm: render_level_from_region, whose Proj::from_epsg_code
\* and transforms of the region corners may fail; a COG of one level gives level 0
RegionLevelStep ==
  /\ pm.pc = "ready"
  /\ pm' = IF pm.epsg_ok /\ pm.corners_ok THEN [pm EXCEPT !.pc = "level"]
           ELSE [pm EXCEPT !.pc = "done", !.result = "ProjectionError"]
  /\ UNCHANGED notPm

\* project_pixel_map
PixelMapStep ==
  /\ pm.pc = "level"
  /\ \E r \in { ProjectPixelMap(pm.level,
                  [n \in 1..Len(pm.px) |->
                     [ok |-> pm.px[n].ok, u |-> QuarterOf(pm.px[n].u),
                      v |-> QuarterOf(pm.px[n].v)]] \o << >>,
                  pm.dims, pm.bounds_ok) } :
       pm' = IF r.err = "none" THEN [pm EXCEPT !.pc = "mapped", !.pixel_map = r.pixel_map]
             ELSE [pm EXCEPT !.pc = "done", !.result = r.err]
  /\ UNCHANGED notPm

\* get_tiles over the tile indices of the map, then render_pixel_map
RegionRenderStep ==
  /\ pm.pc = "mapped"
  /\ \E indices \in { [m \in 1..Cardinality(DOMAIN pm.pixel_map) |->
                        CHOOSE k \in DOMAIN pm.pixel_map :
                          Cardinality({x \in DOMAIN pm.pixel_map : x < k}) = m - 1] \o << >> } :
       \E outcome \in OutcomesOf(indices) :
         LET tile_cache == GetTiles(pm.level, indices, outcome)
         IN  pm' = [pm EXCEPT !.pc = "done", !.outcome = outcome, !.result = "Ok",
                              !.out = RenderPixelMap(pm.pixel_map, pm.level, tile_cache, pm.dims)]
  /\ UNCHANGED notPm

NextRegion == RegionLevelStep \/ PixelMapStep \/ RegionRenderStep

SpecRegion == InitRegion /\ [][NextRegion]_vars

\* some output pixel transforms to image coordinates inside [0,1]x[0,1]
AnyPixelInside ==
  \E n \in 1..Len(pm.px) :
    pm.px[n].ok /\ pm.px[n].u \in 0..4 /\ pm.px[n].v \in 0..4

\* C10 as stated: the render fails with RegionOutOfBounds exactly when no output
\* pixel maps inside the image.
C10_OutOfBoundsIffNoPixelInside ==
  pm.pc = "done" => (pm.result = "RegionOutOfBounds" <=> ~AnyPixelInside)

\* C10, amended: RegionOutOfBounds is returned only when no output pixel maps
\* inside the image; when none does the render fails, with RegionOutOfBounds if the
\* EPSG code, the region corners and the COG bounds all transform and with
\* ProjectionError otherwise; when a pixel maps inside, the render does not fail
\* with RegionOutOfBounds.
C10_OutOfBoundsOnlyIfNoPixelInside ==
  pm.pc = "done" =>
    /\ pm.result = "RegionOutOfBounds" => ~AnyPixelInside
    /\ ~AnyPixelInside => pm.result \in {"RegionOutOfBounds", "ProjectionError"}
    /\ (~AnyPixelInside /\ pm.epsg_ok /\ pm.corners_ok /\ pm.bounds_ok) =>
         pm.result = "RegionOutOfBounds"
    /\ AnyPixelInside => pm.result # "RegionOutOfBounds"

\* a render of two pixels, one whose transform failed and one left of the image,
\* that failed with RegionOutOfBounds
C10_Witness ==
  /\ pm.pc = "done" /\ pm.result = "RegionOutOfBounds"
  /\ pm.dims = <<2, 1>>
  /\ ~pm.px[1].ok
  /\ pm.px[2].ok /\ pm.px[2].u = -1

(***************************************************************************)
(* SpecRange: Level::tile_byte_range on levels whose offsets and           *)
(* byte_counts arrays hold up to two entries each, the arrays being public *)
(* fields, with offsets up to u64::MAX, in a build with and in a build     *)
(* without overflow checks.                                                *)
(***************************************************************************)
\* the offsets of the model: 0, 72 and u64::MAX
RangeOffsets ==
  { BFromNat(0), BFromNat(72), BSub(BShl(BFromNat(1), U64Bits), BFromNat(1)) }

\* the arrays of the model over a set of values
UpToTwo(S) == { << >> } \cup { <<a>> : a \in S } \cup { <<a, b>> : a \in S, b \in S }

InitRange ==
  /\ fx \in { [pc |-> "range", level |-> [offsets |-> o, byte_counts |-> c],
              index |-> i, overflow_checks |-> k, result |-> << >>]
            : o \in UpToTwo(RangeOffsets), c \in UpToTwo({0, 8}),
              i \in 0..2, k \in BOOLEAN }
  /\ tf = Idle /\ rd = Idle /\ en = Idle /\ tc = Idle /\ cg = Idle /\ mx = Idle
  /\ op = Idle /\ pm = Idle

\* level.tile_byte_range(index)
TileByteRangeStep ==
  /\ fx.pc = "range"
  /\ fx' = [fx EXCEPT !.pc = "ranged",
                      !.result = TileByteRangeU64(fx.level, fx.index, fx.overflow_checks)]
  /\ UNCHANGED notFx

NextRange == TileByteRangeStep

SpecRange == InitRange /\ [][NextRange]_vars

\* min(|offsets|, |byte_counts|)
RangeLen == MinOf({Len(fx.level.offsets), Len(fx.level.byte_counts)})

IsTileIndexOutOfRange(r) == ~r.ok /\ ~r.panic

\* C11: for every level, one with empty arrays included, and every index >=
\* min(|offsets|, |byte_counts|), tile_byte_range returns TileIndexOutOfRange: it
\* neither panics nor returns a byte range.
C11_OutOfRangeRejected ==
  (fx.pc = "ranged" /\ fx.index >= RangeLen) => IsTileIndexOutOfRange(fx.result)

\* C11 without the empty arrays: when both arrays hold an entry, every index >=
\* min(|offsets|, |byte_counts|) gets TileIndexOutOfRange, and with an empty array
\* every call panics.
C11_ExceptEmptyArrays ==
  fx.pc = "ranged" =>
    /\ (RangeLen > 0 /\ fx.index >= RangeLen) => IsTileIndexOutOfRange(fx.result)
    /\ RangeLen = 0 => fx.result.panic

\* C12: for every level and every index i < min(|offsets|, |byte_counts|),
\* tile_byte_range(i) returns (start, end) with start = offsets[i] and
\* end - start = byte_counts[i].
C12_RangeIsOffsetAndCount ==
  (fx.pc = "ranged" /\ fx.index < RangeLen) =>
    /\ fx.result.ok
    /\ fx.result.start = fx.level.offsets[fx.index + 1]
    /\ BCmp(fx.result.end, fx.result.start) >= 0
    /\ BSub(fx.result.end, fx.result.start) = BFromNat(fx.level.byte_counts[fx.index + 1])

\* C12 without the overflow: whenever offsets[i] + byte_counts[i] fits u64 the
\* range is (offsets[i], offsets[i] + byte_counts[i]); when it does not, the call
\* panics under overflow checks and returns an end below start without them.
C12_ExceptOverflow ==
  (fx.pc = "ranged" /\ fx.index < RangeLen) =>
    LET sum == U64Add(fx.level.offsets[fx.index + 1],
                      BFromNat(fx.level.byte_counts[fx.index + 1]))
    IN  IF sum.overflow
        THEN IF fx.overflow_checks THEN fx.result.panic
             ELSE fx.result.ok /\ BCmp(fx.result.end, fx.result.start) < 0
        ELSE /\ fx.result.ok
             /\ fx.result.start = fx.level.offsets[fx.index + 1]
             /\ BSub(fx.result.end, fx.result.start)
                  = BFromNat(fx.level.byte_counts[fx.index + 1])

(***************************************************************************)
(* SpecHeader: Tiff::open on streams that begin with any of a set of       *)
(* 4-byte headers and go on with nothing or with zero bytes (a first IFD   *)
(* offset of 0, a TIFF without IFDs).                                      *)
(***************************************************************************)
InitHeader ==
  /\ fx \in { [pc |-> "header", bytes |-> <<b0, b1, b2, b3>> \o rest, result |-> << >>]
            : b0 \in {73, 77, 0}, b1 \in {73, 77, 0},
              b2 \in {0, 1, 42, 43}, b3 \in {0, 1, 42, 43},
              rest \in { << >>, <<0, 0, 0, 0, 0, 0, 0, 0, 0, 0, 0, 0>> } }
  /\ tf = Idle /\ rd = Idle /\ en = Idle /\ tc = Idle /\ cg = Idle /\ mx = Idle
  /\ op = Idle /\ pm = Idle

\* Tiff::open(&mut Cursor::new(bytes))
HeaderOpenStep ==
  /\ fx.pc = "header"
  /\ fx' = [fx EXCEPT !.pc = "opened", !.result = TiffOpen(fx.bytes)]
  /\ UNCHANGED notFx

NextHeader == HeaderOpenStep

SpecHeader == InitHeader /\ [][NextHeader]_vars

\* bytes 0-1 are "II" or "MM"
HeaderHasByteOrder == SubSeq(fx.bytes, 1, 2) \in {<<73, 73>>, <<77, 77>>}

\* bytes 2-3 as a 16-bit integer in the byte order that bytes 0-1 select
HeaderMagic ==
  IF fx.bytes[1] = 73 THEN fx.bytes[3] + 256 * fx.bytes[4]
  ELSE 256 * fx.bytes[3] + fx.bytes[4]

\* C13: Tiff::open fails with BadMagicBytes unless bytes 0-1 are "II" or "MM" and
\* bytes 2-3, read in the byte order bytes 0-1 select, are 0x002A or 0x002B.
C13_BadMagicRejected ==
  fx.pc = "opened" =>
    (HeaderHasByteOrder /\ HeaderMagic \in {42, 43}) \/ fx.result.err = "BadMagicBytes"

\* C13 as the code has it: BadMagicBytes exactly when bytes 0-1 are not "II" or
\* "MM" or bytes 2-3 are 0x002A or 0x002B in neither byte order; a magic number
\* in the byte order opposite to bytes 0-1 is accepted.
C13_ExceptSwappedMagic ==
  fx.pc = "opened" =>
    (fx.result.err = "BadMagicBytes"
       <=> ~(/\ HeaderHasByteOrder
             /\ SubSeq(fx.bytes, 3, 4) \in {<<0, 42>>, <<42, 0>>, <<0, 43>>, <<43, 0>>}))

(***************************************************************************)
(* SpecExact: the provided methods of ReadRange and AsyncReadRange over    *)
(* any implementation of read_range: what it reports is an error or a      *)
(* byte count, which an implementation is free to make anything.           *)
(***************************************************************************)
\* the io::Error the provided methods build
UnexpectedEofError == [kind |-> "UnexpectedEof", message |-> "fill"]

\* ReadRange::read_range_exact that takes any count for a full buffer
ReadRangeExactAnyCount(outcome, n) ==
  IF outcome.ok THEN [ok |-> TRUE] ELSE [ok |-> FALSE, error |-> outcome.error]

\* ReadRange::read_range_exact; outcome is what self.read_range(start, buf) returned
ReadRangeExact(outcome, n) ==
  IF ~outcome.ok THEN [ok |-> FALSE, error |-> outcome.error]
  ELSE IF outcome.bytes_read = n THEN [ok |-> TRUE]
  ELSE [ok |-> FALSE, error |-> UnexpectedEofError]

\* AsyncReadRange::read_range_exact_async
ReadRangeExactAsync(outcome, n) ==
  CASE outcome.ok /\ outcome.bytes_read = n -> [ok |-> TRUE]
    [] outcome.ok /\ outcome.bytes_read # n -> [ok |-> FALSE, error |-> UnexpectedEofError]
    [] ~outcome.ok                          -> [ok |-> FALSE, error |-> outcome.error]

\* AsyncReadRange::read_range_to_vec_async for start <= end; buf is the vector
\* after the read
ReadRangeToVecAsync(outcome, start, end, buf) ==
  LET n == end - start
  IN  CASE outcome.ok /\ outcome.bytes_read = n -> [ok |-> TRUE, buf |-> buf]
        [] outcome.ok /\ outcome.bytes_read # n -> [ok |-> FALSE, error |-> UnexpectedEofError]
        [] ~outcome.ok                          -> [ok |-> FALSE, error |-> outcome.error]

\* a call of one of the three methods with a buffer of n bytes
InitExact ==
  /\ fx \in { [pc |-> "call", method |-> m, start |-> st, n |-> n,
              outcome |-> << >>, buf |-> << >>, result |-> << >>]
            : m \in {"read_range_exact", "read_range_exact_async", "read_range_to_vec_async"},
              st \in 0..2, n \in 0..3 }
  /\ tf = Idle /\ rd = Idle /\ en = Idle /\ tc = Idle /\ cg = Idle /\ mx = Idle
  /\ op = Idle /\ pm = Idle

\* the method runs: read_range reports an error or a count (an honest count is
\* at most n; n + 1 is an implementation that overstates), having written that
\* many bytes of the source into the buffer
ReadExactStep ==
  /\ fx.pc = "call"
  /\ \E outcome \in { [ok |-> TRUE, bytes_read |-> k] : k \in 0..(fx.n + 1) }
                    \cup { [ok |-> FALSE, error |-> [kind |-> kd, message |-> "source"]]
                           : kd \in {"NotFound", "UnexpectedEof", "Other"} } :
       LET buf == [i \in 1..fx.n |->
                     IF outcome.ok /\ i <= outcome.bytes_read THEN 10 + fx.start + i ELSE 0]
                    \o << >>
       IN  fx' = [fx EXCEPT
                    !.pc = "returned", !.outcome = outcome, !.buf = buf,
                    !.result =
                      CASE fx.method = "read_range_exact" -> ReadRangeExact(outcome, fx.n)
                        [] fx.method = "read_range_exact_async" ->
                             ReadRangeExactAsync(outcome, fx.n)
                        [] fx.method = "read_range_to_vec_async" ->
                             ReadRangeToVecAsync(outcome, fx.start, fx.start + fx.n, buf)]
  /\ UNCHANGED notFx

NextExact == ReadExactStep

SpecExact == InitExact /\ [][NextExact]_vars

\* C14: read_range_exact, read_range_exact_async and read_range_to_vec_async
\* return Ok exactly when read_range reported buf.len() bytes (the vector method
\* returning the buffer read), an error of kind UnexpectedEof when it reported
\* another count, and the error of read_range itself, unchanged, when it failed.
C14_ExactRule ==
  fx.pc = "returned" =>
    /\ fx.result.ok <=> (fx.outcome.ok /\ fx.outcome.bytes_read = fx.n)
    /\ (fx.result.ok /\ fx.method = "read_range_to_vec_async") => fx.result.buf = fx.buf
    /\ (fx.outcome.ok /\ fx.outcome.bytes_read # fx.n) =>
         (~fx.result.ok /\ fx.result.error.kind = "UnexpectedEof")
    /\ ~fx.outcome.ok => (~fx.result.ok /\ fx.result.error = fx.outcome.error)

\* read_range_exact of three bytes on a read_range that reported two
C14_Witness ==
  /\ fx.pc = "returned" /\ fx.method = "read_range_exact"
  /\ fx.n = 3 /\ fx.outcome.ok /\ fx.outcome.bytes_read = 2
  /\ ~fx.result.ok /\ fx.result.error.kind = "UnexpectedEof"

(***************************************************************************)
(* The IFDs of an encoded file (SpecEncode): the stream Encoder::encode    *)
(* wrote is parsed with Tiff::open and its IFDs compared with the image.   *)
(***************************************************************************)
\* ceil(max(log2(w / t), log2(h / t))), and 0 when that is negative
CeilLog2Ratio(w, h, t) ==
  CHOOSE n \in 0..(w + h) :
    /\ w <= t * 2^n /\ h <= t * 2^n
    /\ \A m \in 0..(n - 1) : w > t * 2^m \/ h > t * 2^m

PutPixelNoWrite(raster, x, y, pixel) == [ok |-> TRUE, buffer |-> raster.buffer]

\* Raster::get_pixel for bits_per_pixel > 0: Some(pixel) or None
GetPixel(raster, x, y) ==
  IF x >= raster.dimensions[1] \/ y >= raster.dimensions[2] THEN [some |-> FALSE]
  ELSE LET bytes_per_row          == (raster.dimensions[1] * raster.bits_per_pixel + 7) \div 8
           row_offset             == y * bytes_per_row
           start_col_offset_bits  == x * raster.bits_per_pixel
           start_col_offset_bytes == start_col_offset_bits \div 8
           start                  == row_offset + start_col_offset_bytes
           end_col_offset_bits    == x * raster.bits_per_pixel + raster.bits_per_pixel
           end_col_offset_bytes   == (end_col_offset_bits + 7) \div 8
           end                    == row_offset + end_col_offset_bytes
           n                      == end - start
           s                      == start_col_offset_bits - start_col_offset_bytes * 8
           e                      == end_col_offset_bytes * 8 - end_col_offset_bits
           first == [i \in 1..n |-> IF i = 1 THEN raster.buffer[start + i] % 2^(8 - s)
                                    ELSE raster.buffer[start + i]]
       IN  [some |-> TRUE,
            pixel |-> [i \in 1..n |-> IF i = n THEN first[i] - (first[i] % 2^e) ELSE first[i]]
                        \o << >>]

\* Raster::put_pixel for bits_per_pixel > 0: Ok and the buffer after it, or Err
PutPixel(raster, x, y, pixel) ==
  IF x >= raster.dimensions[1] \/ y >= raster.dimensions[2] THEN [ok |-> FALSE]
  ELSE LET bytes_per_row          == (raster.dimensions[1] * raster.bits_per_pixel + 7) \div 8
           row_offset             == y * bytes_per_row
           start_col_offset_bits  == x * raster.bits_per_pixel
           start_col_offset_bytes == start_col_offset_bits \div 8
           start                  == row_offset + start_col_offset_bytes
           end_col_offset_bits    == x * raster.bits_per_pixel + raster.bits_per_pixel
           end_col_offset_bytes   == (end_col_offset_bits + 7) \div 8
           end                    == row_offset + end_col_offset_bytes
           n                      == end - start
       IN  IF Len(pixel) # n THEN [ok |-> FALSE]
           ELSE \* the masked writes of the first and last byte are overwritten by
                \* the copy loop that follows them
                [ok |-> TRUE,
                 buffer |-> [k \in 1..Len(raster.buffer) |->
                               IF k > start /\ k <= end THEN pixel[k - start]
                               ELSE raster.buffer[k]] \o << >>]

\* a raster of distinct non-zero bytes
InitPixel ==
  /\ fx \in { [pc |-> "new",
              raster |-> RasterNew(d, [k \in 1..(d[1] * d[2] * Len(bps)) |-> 10 + k] \o << >>, bps),
              before |-> << >>, x |-> 0, y |-> 0, pixel |-> << >>, ok |-> FALSE]
            : d \in {<<1, 1>>, <<2, 1>>, <<1, 2>>, <<2, 2>>, <<3, 2>>},
              bps \in {<<8>>, <<8, 8>>} }
  /\ tf = Idle /\ rd = Idle /\ en = Idle /\ tc = Idle /\ cg = Idle /\ mx = Idle
  /\ op = Idle /\ pm = Idle

\* raster.put_pixel(x, y, raster.get_pixel(x, y).unwrap()) for (x, y) in range
PutBackStep ==
  /\ fx.pc = "new"
  /\ \E x \in 0..fx.raster.dimensions[1], y \in 0..fx.raster.dimensions[2] :
       \E got \in {GetPixel(fx.raster, x, y)} :
         /\ got.some
         /\ \E r \in {PutPixel(fx.raster, x, y, got.pixel)} :
              fx' = [fx EXCEPT !.pc = "putback", !.x = x, !.y = y, !.pixel = got.pixel,
                               !.before = fx.raster.buffer, !.ok = r.ok,
                               !.raster.buffer = IF r.ok THEN r.buffer ELSE @]
  /\ UNCHANGED notFx

\* raster.put_pixel(x, y, pixel) for any (x, y) and a pixel of one to three bytes
PutPixelStep ==
  /\ fx.pc = "new"
  /\ \E x \in 0..fx.raster.dimensions[1], y \in 0..fx.raster.dimensions[2],
        pixel \in {<<1>>, <<11>>, <<2, 3>>, <<4, 5, 6>>} :
       \E r \in {PutPixel(fx.raster, x, y, pixel)} :
         fx' = [fx EXCEPT !.pc = "put", !.x = x, !.y = y, !.pixel = pixel,
                          !.before = fx.raster.buffer, !.ok = r.ok,
                          !.raster.buffer = IF r.ok THEN r.buffer ELSE @]
  /\ UNCHANGED notFx

NextPixel == PutBackStep \/ PutPixelStep

SpecPixel == InitPixel /\ [][NextPixel]_vars

PixelInRange == fx.x < fx.raster.dimensions[1] /\ fx.y < fx.raster.dimensions[2]

ResolutionFromMpLimit(max_dimensions, max_megapixels) ==
  Only({ Only({ <<FToNat(FMul(ar, height)), FToNat(height)>>
              : height \in { FSqrt(FDiv(FMin(FMul(max_megapixels, FFromInt(1000000)),
                                             max_pixels), ar)) } })
       : <<ar, max_pixels>> \in
           { << FDiv(FFromInt(max_dimensions[1]), FFromInt(max_dimensions[2])),
                FMul(FFromInt(max_dimensions[1]), FFromInt(max_dimensions[2])) >> } })

\* the full dimensions of the model, and the limits 0.01, 1000 and 2^-17 megapixels
InitLimit ==
  /\ fx \in { [pc |-> "limit", dims |-> d, m |-> m, resolution |-> << >>]
            : d \in ((1..4) \X {1, 2, 3, 49}) \cup {<<256, 256>>, <<49, 1>>, <<105, 2>>},
              m \in {<<1, 100>>, <<1000, 1>>, <<1, 131072>>} }
  /\ tf = Idle /\ rd = Idle /\ en = Idle /\ tc = Idle /\ cg = Idle /\ mx = Idle
  /\ op = Idle /\ pm = Idle

\* cog.renderer().with_mp_limit(m)
WithMpLimitStep ==
  /\ fx.pc = "limit"
  /\ fx' = [fx EXCEPT !.pc = "limited",
                      !.resolution = ResolutionFromMpLimit(fx.dims,
                                       FDiv(FFromInt(fx.m[1]), FFromInt(fx.m[2])))]
  /\ UNCHANGED notFx

NextLimit == WithMpLimitStep

SpecLimit == InitLimit /\ [][NextLimit]_vars

\* min(m * 10^6, w * h) as a fraction <<numerator, denominator>>.  The limits
\* 1000 and 2^-17 are f64 values; 0.01 as f64 exceeds 1/100 by less than 10^-18,
\* which moves no floor below.
PixelBudget ==
  LET w == fx.dims[1]
      h == fx.dims[2]
      g == CHOOSE k \in 1..fx.m[2] : \* the denominator of m * 10^6 in lowest terms
             /\ fx.m[2] % k = 0 /\ (fx.m[1] * 1000000) % (fx.m[2] \div k) = 0
             /\ \A j \in 1..(k - 1) :
                  ~(fx.m[2] % j = 0 /\ (fx.m[1] * 1000000) % (fx.m[2] \div j) = 0)
      n == (fx.m[1] * 1000000) \div (fx.m[2] \div g)
  IN  IF w * h * g <= n THEN <<w * h, 1>> ELSE <<n, g>>

\* trunc(sqrt(num / den))
FloorSqrt(num, den) == CHOOSE n \in 0..num : n * n * den <= num /\ (n + 1) * (n + 1) * den > num

\* C17: with_mp_limit(m) on a COG of full dimensions (w, h) sets the resolution
\* (W, H), H = trunc(sqrt(min(m * 10^6, w * h) * h / w)) and W = trunc((w / h) *
\* sqrt(min(m * 10^6, w * h) * h / w)), so that W * H <= min(m * 10^6, w * h),
\* W <= w and H <= h; (256, 256) with m = 0.01 gives (100, 100).
C17_ResolutionFormula ==
  fx.pc = "limited" =>
    LET w == fx.dims[1]
        h == fx.dims[2]
        P == PixelBudget
        W == fx.resolution[1]
        H == fx.resolution[2]
    IN  /\ H = FloorSqrt(P[1] * h, P[2] * w)
        /\ W = FloorSqrt(P[1] * w, P[2] * h)
        /\ W * H * P[2] <= P[1] /\ W <= w /\ H <= h
        /\ (fx.dims = <<256, 256>> /\ fx.m = <<1, 100>>) => fx.resolution = <<100, 100>>

\* C17 as the f64 arithmetic has it: W * H <= min(m * 10^6, w * h), W <= w and
\* H <= h always, (256, 256) with 0.01 gives (100, 100), and W and H are the
\* truncated values of the formula or one less.
C17_WithinOneOfFormula ==
  fx.pc = "limited" =>
    LET w == fx.dims[1]
        h == fx.dims[2]
        P == PixelBudget
        W == fx.resolution[1]
        H == fx.resolution[2]
    IN  /\ FloorSqrt(P[1] * h, P[2] * w) - H \in {0, 1}
        /\ FloorSqrt(P[1] * w, P[2] * h) - W \in {0, 1}
        /\ W * H * P[2] <= P[1] /\ W <= w /\ H <= h
        /\ (fx.dims = <<256, 256>> /\ fx.m = <<1, 100>>) => fx.resolution = <<100, 100>>

(***************************************************************************)
(* SpecTiles: get_tiles and get_tiles_async on one level, and the pixel    *)
(* loop of the render that follows.  A buffer is known by the tile whose   *)
(* byte range it was read from and a decoded tile by the buffer it was     *)
(* decoded from.  What the source holds is fixed at the start: for each    *)
(* tile, bytes that read and decode ("ok"), a range the source cannot      *)
(* serve ("read_failed"), or bytes that do not decode ("decode_failed").   *)
(* Fetch tasks are numbered in the order get_tiles_async spawned them.     *)
(***************************************************************************)
\* a join_all that returns while tasks are still running
JoinAllEarly(pending) == TRUE

\* join_all(..).await returns when every JoinHandle has completed
JoinAllReady(pending) == pending = {}

\* byte_results when a buffer is filed under the index of the n-th task spawned
\* as the n-th buffer arrives
ByteResultsByArrival(infos, results, order) ==
  LET good == SelectSeq(order, LAMBDA n : results[n].state = "ok")
  IN  [m \in 1..Len(good) |-> [index |-> infos[m], buf |-> results[good[m]].buf]] \o << >>

\* byte_results: the outputs join_all returns, in the order of the futures it was
\* given, each Ok one being the (index, buf) its own task returned
ByteResults(infos, results, order) ==
  LET good == SelectSeq([n \in 1..Len(infos) |-> n] \o << >>,
                        LAMBDA n : results[n].state = "ok")
  IN  [m \in 1..Len(good) |-> [index |-> results[good[m]].index,
                               buf   |-> results[good[m]].buf]] \o << >>

\* the for loop over tile_results: tile_cache.insert(index, tile) of each Ok one,
\* a later insert replacing an earlier one
TileCacheOf(tile_results) ==
  LET good == {n \in 1..Len(tile_results) : tile_results[n].state = "ok"}
  IN  [k \in {tile_results[n].index : n \in good} |->
         tile_results[MaxOf({n \in good : tile_results[n].index = k})].tile]

\* get_tiles: filter_map over tile_infos, read_range_exact then
\* extract_tile_from_bytes, collected into the cache
GetTilesCache(level, indices, source) ==
  LET infos == TileInfoFromIndices(level, indices)
  IN  TileCacheOf([n \in 1..Len(infos) |->
                     [state |-> source[infos[n]], index |-> infos[n],
                      tile |-> [decoded_from |-> infos[n]]]] \o << >>)

InitTiles ==
  /\ rd \in { [pc |-> "call", mode |-> mode, level |-> MkLevel(d[1], d[2], 2, 0),
              indices |-> << >>, source |-> << >>, infos |-> << >>, pending |-> {},
              results |-> << >>, order |-> << >>, byte_results |-> << >>,
              todo |-> {}, running |-> {}, tile_results |-> << >>,
              tile_cache |-> << >>, written |-> 0]
            : mode \in Modes, d \in {<<3, 2>>, <<5, 2>>} }
  /\ tf = Idle /\ en = Idle /\ tc = Idle /\ cg = Idle /\ mx = Idle /\ op = Idle
  /\ pm = Idle /\ fx = Idle

\* the indices asked for (every tile in order, in reverse order, or two tiles
\* around an index the level does not have) and what the source holds
TilesRequest ==
  /\ rd.pc = "call"
  /\ \E n \in {Len(rd.level.offsets)} :
       \E indices \in { [k \in 1..n |-> k - 1], [k \in 1..n |-> n - k], <<n - 1, n + 5, 0>> },
          source \in [0..(n - 1) -> Outcomes] :
         rd' = [rd EXCEPT !.pc = "ready", !.indices = indices \o << >>, !.source = source]
  /\ UNCHANGED notRd

\* get_tiles(reader, level, indices)
TilesSync ==
  /\ rd.pc = "ready" /\ rd.mode = "sync"
  /\ rd' = [rd EXCEPT !.pc = "cached",
                      !.infos = TileInfoFromIndices(rd.level, rd.indices),
                      !.tile_cache = GetTilesCache(rd.level, rd.indices, rd.source)]
  /\ UNCHANGED notRd

\* get_tiles_async: tile_info_from_indices, one tokio::spawn per tile info
TilesSpawn ==
  /\ rd.pc = "ready" /\ rd.mode = "async"
  /\ \E infos \in {TileInfoFromIndices(rd.level, rd.indices)} :
       rd' = [rd EXCEPT !.pc = "fetching", !.infos = infos,
                        !.pending = 1..Len(infos),
                        !.results = [n \in 1..Len(infos) |-> [state |-> "running"]] \o << >>]
  /\ UNCHANGED notRd

\* a spawned task ends: read_range_exact_async(start, &mut buf).await.map(|_| (index, buf))
FetchTaskEnds ==
  /\ rd.pc = "fetching"
  /\ \E n \in rd.pending :
       rd' = [rd EXCEPT
                !.pending = @ \ {n},
                !.order = Append(@, n),
                !.results[n] = IF rd.source[rd.infos[n]] = "read_failed"
                               THEN [state |-> "failed"]
                               ELSE [state |-> "ok", index |-> rd.infos[n],
                                     buf |-> rd.infos[n]]]
  /\ UNCHANGED notRd

\* join_all(..).await returns and the filter_map keeps the Ok(Ok(..)) outputs; the
\* rayon jobs are made, one per buffer
JoinAllStep ==
  /\ rd.pc = "fetching"
  /\ JoinAllReady(rd.pending)
  /\ \E byte_results \in {ByteResults(rd.infos, rd.results, rd.order)} :
       rd' = [rd EXCEPT !.pc = "decoding", !.byte_results = byte_results,
                        !.todo = 1..Len(byte_results),
                        !.tile_results = [n \in 1..Len(byte_results) |->
                                            [state |-> "waiting"]] \o << >>]
  /\ UNCHANGED notRd

\* a rayon worker takes a job of into_par_iter
DecodeStart ==
  /\ rd.pc = "decoding"
  /\ \E n \in rd.todo :
       rd' = [rd EXCEPT !.todo = @ \ {n}, !.running = @ \cup {n}]
  /\ UNCHANGED notRd

\* the job ends: level_clone.extract_tile_from_bytes(&bytes).map(|tile| (index, tile))
DecodeEnd ==
  /\ rd.pc = "decoding"
  /\ \E n \in rd.running :
       rd' = [rd EXCEPT
                !.running = @ \ {n},
                !.tile_results[n] =
                  IF rd.source[rd.byte_results[n].buf] = "decode_failed"
                  THEN [state |-> "failed"]
                  ELSE [state |-> "ok", index |-> rd.byte_results[n].index,
                        tile |-> [decoded_from |-> rd.byte_results[n].buf]]]
  /\ UNCHANGED notRd

\* collect() returns when every job has ended; the Ok results go into the cache
\* and get_tiles_async returns it
CollectStep ==
  /\ rd.pc = "decoding" /\ rd.todo = {} /\ rd.running = {}
  /\ rd' = [rd EXCEPT !.pc = "cached", !.tile_cache = TileCacheOf(rd.tile_results)]
  /\ UNCHANGED notRd

\* the render's pixel loop after the cache is returned: one put_pixel
PixelWriteStep ==
  /\ rd.pc = "cached" /\ rd.written < Len(rd.infos)
  /\ rd' = [rd EXCEPT !.written = @ + 1]
  /\ UNCHANGED notRd

NextTiles ==
  \/ TilesRequest \/ TilesSync \/ TilesSpawn \/ FetchTaskEnds \/ JoinAllStep
  \/ DecodeStart \/ DecodeEnd \/ CollectStep \/ PixelWriteStep

SpecTiles == InitTiles /\ [][NextTiles]_vars

\* C18: whatever order the fetch tasks completed in, the cache get_tiles_async
\* returns holds exactly the requested tiles of the level whose read and decode
\* succeeded, each index with the tile decoded from its own bytes: the cache the
\* sequential get_tiles gives for the same level, indices and source.
C18_CacheIndependentOfOrder ==
  (rd.pc = "cached" /\ rd.mode = "async") =>
    /\ DOMAIN rd.tile_cache =
         {k \in {rd.indices[n] : n \in 1..Len(rd.indices)} :
            k < Len(rd.level.offsets) /\ rd.source[k] = "ok"}
    /\ \A k \in DOMAIN rd.tile_cache : rd.tile_cache[k] = [decoded_from |-> k]
    /\ rd.tile_cache = GetTilesCache(rd.level, rd.indices, rd.source)

\* three fetch tasks ended in the reverse of the order they were spawned in, and
\* the cache holds the two tiles that read and decoded
C18_Witness ==
  /\ rd.pc = "cached" /\ rd.mode = "async"
  /\ rd.order = <<3, 2, 1>>
  /\ rd.infos = <<0, 1, 2>>
  /\ DOMAIN rd.tile_cache = {0, 2}

\* C19: no decode starts before every spawned fetch task has finished, and no
\* pixel is written before every decode has finished.
C19_StagesOrdered ==
  (rd.mode = "async" /\ rd.pc \notin {"call", "ready"}) =>
    /\ (\E n \in 1..Len(rd.tile_results) : rd.tile_results[n].state # "waiting")
         \/ rd.running # {}
       => /\ rd.pending = {}
          /\ \A n \in 1..Len(rd.results) : rd.results[n].state # "running"
    /\ rd.written > 0 =>
         /\ rd.pending = {} /\ rd.todo = {} /\ rd.running = {}
         /\ \A n \in 1..Len(rd.tile_results) : rd.tile_results[n].state # "waiting"

\* a decode is running while another has not started, after three fetch tasks
\* ended out of order
C19_Witness ==
  /\ rd.pc = "decoding" /\ rd.mode = "async"
  /\ rd.order = <<2, 3, 1>>
  /\ rd.running # {} /\ rd.todo # {}

\* Encoder::encode, the tile loops alone: where each tile body was written and how
\* long it is, [ok, bytes, ifd_tile_offsets, ifd_tile_bytes]
EncoderTileBodies(enc) ==
  Only({ WriteLevels(enc, enc.raster, 0, n,
                     [ok |-> TRUE,
                      bytes |-> TiffEncode(EncoderTiff(enc, TiffNew(enc.endian, enc.variant),
                                                       0, n)).bytes,
                      ifd_tile_offsets |-> << >>, ifd_tile_bytes |-> << >>])
       : n \in {OverviewLevels(enc.raster.dimensions, enc.tile_dimensions)} })

PickPyramids == { <<<<8, 8>>, <<4, 4>>, <<2, 2>>>>, <<<<7, 5>>, <<3, 2>>, <<1, 1>>>> }

\* the crops of the model as (min_x, min_y, max_x, max_y) in quarters
PickCrops == { <<0, 0, 4, 4>>, <<0, 0, 2, 2>>, <<1, 1, 3, 3>>, <<0, 0, 4, 2>>,
               <<0, 0, 2, 4>>, <<2, 2, 2, 2>>, <<0, 0, 1, 1>> }

InitPick ==
  /\ fx \in { [pc |-> "pick",
              levels |-> [n \in 1..3 |-> MkLevel(p[n][1], p[n][2], 2, n - 1)] \o << >>,
              q |-> q,
              crop |-> RegionNewSaturated(QuarterOf(q[1]), QuarterOf(q[2]),
                                          QuarterOf(q[3]), QuarterOf(q[4])),
              dimensions |-> d, level |-> 0]
            : p \in PickPyramids, q \in PickCrops,
              d \in ((1..4) \X (1..4)) \cup {<<8, 8>>} }
  /\ tf = Idle /\ rd = Idle /\ en = Idle /\ tc = Idle /\ cg = Idle /\ mx = Idle
  /\ op = Idle /\ pm = Idle

\* util::render_level_from_crop(cog, &crop, &dimensions)
RenderLevelFromCropStep ==
  /\ fx.pc = "pick"
  /\ fx' = [fx EXCEPT !.pc = "picked",
                      !.level = RenderLevelFromCrop(fx.levels, fx.crop, fx.dimensions)]
  /\ UNCHANGED notFx

NextPick == RenderLevelFromCropStep

SpecPick == InitPick /\ [][NextPick]_vars

\* the width and the height of the crop, in quarters
PickCropW == fx.q[3] - fx.q[1]

PickCropH == fx.q[4] - fx.q[2]

\* the index in levels (from 1) of the last level of S, or level 0 when S is empty
CoarsestOf(S) == IF S = {} THEN 1 ELSE MaxOf(S)

\* C21: render_level_from_crop returns the coarsest level whose width exceeds
\* out_w / crop_w and whose height exceeds out_h / crop_h, and level 0 when no
\* level satisfies both.
C21_CoarsestLevelExceedingBoth ==
  fx.pc = "picked" =>
    fx.level = CoarsestOf({n \in 1..Len(fx.levels) :
                 /\ PickCropW > 0 /\ PickCropH > 0
                 /\ fx.levels[n].dimensions[1] * PickCropW > 4 * fx.dimensions[1]
                 /\ fx.levels[n].dimensions[2] * PickCropH > 4 * fx.dimensions[2]})

\* C21 as the code has it: the coarsest level whose width exceeds
\* ceil(out_w / crop_w) and whose height is not zero, for a crop that has a width
\* and a height; level 0 otherwise.
C21_WidthOnly ==
  fx.pc = "picked" =>
    fx.level = CoarsestOf({n \in 1..Len(fx.levels) :
                 /\ PickCropW > 0 /\ PickCropH > 0
                 /\ fx.levels[n].dimensions[1] >
                      (4 * fx.dimensions[1] + PickCropW - 1) \div PickCropW
                 /\ fx.levels[n].dimensions[2] > 0})

(***************************************************************************)
(* SpecScale: CloudTiff::level_at_pixel_scale and render_level_from_region *)
(* on a pyramid of three levels.  The region is given in the CRS of the    *)
(* COG, so the proj4 transform leaves its corners as they are; origin is   *)
(* (0, 0).  Scales are sixteenths and the region covers quarters of the    *)
(* image, all exact in f64.                                                *)
(***************************************************************************)
FAbs(a) == [a EXCEPT !.s = 0]

SixteenthOf(a) == FDiv(FFromInt(a), FFromInt(16))

\* CloudTiff::pixel_scales: both scales are divided by the width of the level
PixelScales(levels, scale) ==
  [n \in 1..Len(levels) |->
     <<FDiv(scale[1], FFromInt(levels[n].dimensions[1])),
       FDiv(scale[2], FFromInt(levels[n].dimensions[1]))>>] \o << >>

\* the find over the reversed level scales, unwrap_or(0): the index in levels
\* (from 1) of the level returned
FindLevelBelow(level_scales, min_pixel_scale) ==
  LET fits == {n \in 1..Len(level_scales) :
                 FLt(FMax(level_scales[n][1], level_scales[n][2]), min_pixel_scale)}
  IN  IF fits = {} THEN 1 ELSE MaxOf(fits)

\* CloudTiff::level_at_pixel_scale(min_pixel_scale)
LevelAtPixelScale(levels, scale, min_pixel_scale) ==
  FindLevelBelow(PixelScales(levels, scale), min_pixel_scale)

\* Projection::transform_from(x, y, 0.0, epsg) for the COG's own CRS: (u, v)
ProjectionTransformFrom(projection, x, y) ==
  <<FDiv(FSub(x, projection.origin[1]), projection.scale[1]),
    FDiv(FSub(projection.origin[2], y), projection.scale[2])>>

\* render_level_from_region: the index in levels (from 1) of the level it returns
RenderLevelFromRegion(levels, projection, region, dimensions) ==
  Only({ FindLevelBelow(PixelScales(levels, projection.scale),
           FMin(FDiv(FAbs(FSub(rb[1], lt[1])), FFromInt(dimensions[1])),
                FDiv(FAbs(FSub(lt[2], rb[2])), FFromInt(dimensions[2]))))
       : lt \in {ProjectionTransformFrom(projection, region.xmin, region.ymin)},
         rb \in {ProjectionTransformFrom(projection, region.xmax, region.ymax)} })

\* the scales of the model in sixteenths: one unit, a sixteenth (degrees), a
\* thousand units (metres), and an image half as high as wide
ScaleSixteenths == { <<16, 16>>, <<1, 1>>, <<16384, 16384>>, <<16, 8>> }

\* the part of the image the region covers on each axis, in quarters
RegionQuarters == {4, 2, 1} \X {4, 2}

InitScale ==
  /\ fx \in { [pc |-> "region",
              levels |-> [n \in 1..3 |-> MkLevel(p[n][1], p[n][2], 2, n - 1)] \o << >>,
              s |-> s, q |-> q,
              projection |-> [origin |-> <<F0, F0>>,
                              scale |-> <<SixteenthOf(s[1]), SixteenthOf(s[2])>>],
              region |-> [xmin |-> F0, xmax |-> FMul(SixteenthOf(s[1]), QuarterOf(q[1])),
                          ymin |-> FNeg(FMul(SixteenthOf(s[2]), QuarterOf(q[2]))),
                          ymax |-> F0],
              dimensions |-> d, from_region |-> 0, from_scale |-> 0]
            : p \in PickPyramids, s \in ScaleSixteenths, q \in RegionQuarters,
              d \in {1, 2, 3, 4, 8} \X {2, 4} }
  /\ tf = Idle /\ rd = Idle /\ en = Idle /\ tc = Idle /\ cg = Idle /\ mx = Idle
  /\ op = Idle /\ pm = Idle

\* util::render_level_from_region(cog, epsg, &region, &dimensions)
RenderLevelFromRegionStep ==
  /\ fx.pc = "region"
  /\ fx' = [fx EXCEPT !.pc = "chosen",
                      !.from_region = RenderLevelFromRegion(fx.levels, fx.projection,
                                                            fx.region, fx.dimensions)]
  /\ UNCHANGED notFx

\* cog.level_at_pixel_scale(min) for min the smaller of the region's width over
\* the output width and its height over the output height
LevelAtPixelScaleStep ==
  /\ fx.pc = "chosen"
  /\ fx' = [fx EXCEPT !.pc = "compared",
                      !.from_scale = LevelAtPixelScale(fx.levels, fx.projection.scale,
                        FMin(FDiv(FAbs(FSub(fx.region.xmax, fx.region.xmin)),
                                  FFromInt(fx.dimensions[1])),
                             FDiv(FAbs(FSub(fx.region.ymax, fx.region.ymin)),
                                  FFromInt(fx.dimensions[2]))))]
  /\ UNCHANGED notFx

NextScale == RenderLevelFromRegionStep \/ LevelAtPixelScaleStep

SpecScale == InitScale /\ [][NextScale]_vars

\* level_at_pixel_scale returned the coarsest level whose two scales of
\* pixel_scales(), scale.0 / width and scale.1 / width, are both below the smaller
\* of the region's pixel scales, scale.0 * qx / 4 / out_w and scale.1 * qy / 4 /
\* out_h; level 0 when there is none
LevelAtPixelScaleIsCoarsestBelow ==
  fx.from_scale =
    CoarsestOf({n \in 1..Len(fx.levels) :
      LET w == fx.levels[n].dimensions[1]
      IN  \A a \in 1..2, b \in 1..2 :
            4 * fx.s[a] * fx.dimensions[b] < fx.s[b] * fx.q[b] * w})

\* C22: level_at_pixel_scale(min) returns the coarsest level whose larger scale of
\* pixel_scales() is strictly below min, level 0 when there is none, and
\* render_level_from_region returns the level level_at_pixel_scale returns for
\* the smaller of the two output pixel scales of the region.
C22_RegionLevelIsLevelAtPixelScale ==
  fx.pc = "compared" =>
    /\ LevelAtPixelScaleIsCoarsestBelow
    /\ fx.from_region = fx.from_scale

\* C22 as the code has it: render_level_from_region compares the level scales
\* with the extent of the region as a fraction of the image, qx / 4 / out_w and
\* qy / 4 / out_h, not with its extent in the units of the projection.
C22_ExceptRegionInImageFractions ==
  fx.pc = "compared" =>
    /\ LevelAtPixelScaleIsCoarsestBelow
    /\ fx.from_region =
         CoarsestOf({n \in 1..Len(fx.levels) :
           LET w == fx.levels[n].dimensions[1]
           IN  \A a \in 1..2, b \in 1..2 :
                 4 * fx.s[a] * fx.dimensions[b] < 16 * fx.q[b] * w})

(***************************************************************************)
(* SpecAdmit: CloudTiff::from_tiff_and_geo on a Tiff whose IFDs are levels *)
(* and IFDs that are not: tile arrays shorter than the tile grid, tile     *)
(* arrays of different lengths, no tile tags, an ImageWidth of two values. *)
(* Whether Projection::from_geo_tags accepts the geo tags is an input.     *)
(***************************************************************************)
AdmitKinds == {"level", "short_arrays", "unequal_arrays", "no_tiles", "bad_width"}

\* an IFD of each kind: (width, height, tile size, offsets, byte counts)
AdmitShape(kind) ==
  CASE kind = "level"          -> <<4, 4, 2, 4, 4>>
    [] kind = "short_arrays"   -> <<3, 3, 2, 1, 1>>
    [] kind = "unequal_arrays" -> <<4, 2, 2, 2, 1>>
    [] kind = "no_tiles"       -> <<2, 2, 0, 0, 0>>
    [] kind = "bad_width"      -> <<1, 1, 2, 1, 1>>

MkAdmitIfd(kind, endian) ==
  LET shape == AdmitShape(kind)
  IN  SetTags(<< >>,
        << <<TagId.ImageWidth,
             DataLong(IF kind = "bad_width" THEN <<shape[1], shape[1]>> ELSE <<shape[1]>>)>>,
           <<TagId.ImageHeight, DataLong(<<shape[2]>>)>>,
           <<TagId.BitsPerSample, DataShort(<<8>>)>>,
           <<TagId.Compression, DataShort(<<EnumCodes.Uncompressed>>)>> >>
        \o (IF kind = "no_tiles" THEN << >>
            ELSE << <<TagId.TileWidth, DataShort(<<shape[3]>>)>>,
                    <<TagId.TileLength, DataShort(<<shape[3]>>)>>,
                    <<TagId.TileOffsets,
                      DataLong([k \in 1..shape[4] |-> 256 + 4 * k] \o << >>)>>,
                    <<TagId.TileByteCounts,
                      DataLong([k \in 1..shape[5] |-> 4] \o << >>)>> >>),
        endian)

\* a from_tiff_and_geo that fails with the error of the first IFD that does not
\* convert
FromTiffAndGeoFailing(tiff, geo_ok) ==
  IF \E i \in 1..Len(tiff.ifds) : ~LevelFromIfd(tiff.ifds[i], tiff.endian).ok
  THEN [err |-> "BadTiff"]
  ELSE IF ~geo_ok THEN [err |-> "ProjectionError"] ELSE FromTiffAndGeo(tiff)

\* CloudTiff::from_tiff_and_geo with the projection: the levels are built and
\* counted first, then Projection::from_geo_tags(&geo, levels[0].dimensions)?
FromTiffAndGeoTags(tiff, geo_ok) ==
  Only({ IF r.err = "none" /\ ~geo_ok THEN [err |-> "ProjectionError"] ELSE r
       : r \in {FromTiffAndGeo(tiff)} })

InitAdmit ==
  /\ cg \in { [pc |-> "ready", kinds |-> kinds, geo_ok |-> g,
              tiff |-> [endian |-> e, variant |-> "Normal",
                        ifds |-> [i \in 1..Len(kinds) |-> MkAdmitIfd(kinds[i], e)] \o << >>],
              result |-> [err |-> "unopened"]]
            : kinds \in UNION { [1..n -> AdmitKinds] : n \in 1..MaxLevelIfds },
              e \in Endians, g \in BOOLEAN }
  /\ tf = Idle /\ rd = Idle /\ en = Idle /\ tc = Idle /\ mx = Idle /\ op = Idle
  /\ pm = Idle /\ fx = Idle

\* CloudTiff::from_tiff_and_geo(tiff, geo)
FromTiffAndGeoTagsStep ==
  /\ cg.pc = "ready"
  /\ cg' = [cg EXCEPT !.pc = "done", !.result = FromTiffAndGeoTags(cg.tiff, cg.geo_ok)]
  /\ UNCHANGED notCg

NextAdmit == FromTiffAndGeoTagsStep

SpecAdmit == InitAdmit /\ [][NextAdmit]_vars

\* the tiles of the grid of a level, ceil(w / tile_width) * ceil(h / tile_height)
GridSize(level) ==
  ((level.dimensions[1] + level.tile_width - 1) \div level.tile_width)
    * ((level.dimensions[2] + level.tile_height - 1) \div level.tile_height)

\* C23: every Level of a CloudTiff built by from_tiff_and_geo has offsets and
\* byte_counts of col_count() * row_count() = ceil(w / tile_width) * ceil(h /
\* tile_height) entries each; an IFD whose tile arrays do not have that length is
\* not admitted as a level.
C23_TileArraysFillGrid ==
  (cg.pc = "done" /\ cg.result.err = "none") =>
    \A i \in 1..Len(cg.result.levels) :
      LET level == cg.result.levels[i]
      IN  /\ Len(level.offsets) = Len(level.byte_counts)
          /\ ColCount(level) * RowCount(level) = GridSize(level)
          /\ Len(level.offsets) = ColCount(level) * RowCount(level)

\* C23 as the code has it: the two arrays of a level have the same length, and an
\* IFD whose arrays differ in length is not admitted.
C23_TileArraysSameLength ==
  (cg.pc = "done" /\ cg.result.err = "none") =>
    /\ \A i \in 1..Len(cg.result.levels) :
         LET level == cg.result.levels[i]
         IN  /\ Len(level.offsets) = Len(level.byte_counts)
             /\ ColCount(level) * RowCount(level) = GridSize(level)
    /\ Len(cg.result.levels) =
         Cardinality({i \in 1..Len(cg.kinds) : cg.kinds[i] \in {"level", "short_arrays"}})
    /\ \A i \in 1..Len(cg.result.levels) :
         cg.result.levels[i].dimensions \in {<<4, 4>>, <<3, 3>>}

\* the IFDs of the Tiff that Level::from_ifd converts
Converting == {i \in 1..Len(cg.tiff.ifds) : LevelFromIfd(cg.tiff.ifds[i], cg.tiff.endian).ok}

\* C26: from_tiff_and_geo returns NoLevels exactly when no IFD converts to a
\* Level; otherwise an IFD that does not convert is dropped without failing the
\* call: the result is the result for the Tiff without those IFDs (for the same
\* geo tags), and a CloudTiff returned has as many levels as IFDs convert.
C26_UnusableIfdsDropped ==
  cg.pc = "done" =>
    /\ cg.result.err = "NoLevels" <=> Converting = {}
    /\ Converting # {} =>
         /\ cg.result = FromTiffAndGeoTags(
              [cg.tiff EXCEPT !.ifds = SelectSeq(cg.tiff.ifds,
                                         LAMBDA ifd : LevelFromIfd(ifd, cg.tiff.endian).ok)],
              cg.geo_ok)
         /\ cg.geo_ok <=> cg.result.err = "none"
         /\ cg.result.err = "none" => Len(cg.result.levels) = Cardinality(Converting)
    /\ Converting = {i \in 1..Len(cg.kinds) : cg.kinds[i] \in {"level", "short_arrays"}}

\* a Tiff of three IFDs, the first without tile tags, the second with tile arrays
\* of different lengths, the third a level: the CloudTiff has that one level
C26_Witness ==
  /\ cg.pc = "done" /\ cg.result.err = "none"
  /\ cg.kinds = <<"no_tiles", "unequal_arrays", "level">>
  /\ Len(cg.result.levels) = 1
  /\ cg.result.levels[1].dimensions = <<4, 4>>

(***************************************************************************)
(* SpecIndex: Level::index_from_image_coords on levels whose tile arrays   *)
(* fill the grid, for image coordinates in quarters from -1/4 to 5/4.      *)
(***************************************************************************)
\* the levels of the model as (width, height, tile size): grids of whole tiles and
\* a grid whose last column and row are partial
IndexLevels == { <<4, 4, 2>>, <<8, 8, 4>>, <<7, 5, 2>> }

InitIndex ==
  /\ fx \in { [pc |-> "coords", level |-> MkLevel(l[1], l[2], l[3], 0), qx |-> qx, qy |-> qy,
              result |-> [ok |-> FALSE]]
            : l \in IndexLevels, qx \in -1..5, qy \in -1..5 }
  /\ tf = Idle /\ rd = Idle /\ en = Idle /\ tc = Idle /\ cg = Idle /\ mx = Idle
  /\ op = Idle /\ pm = Idle

\* level.index_from_image_coords(x, y)
IndexFromImageCoordsStep ==
  /\ fx.pc = "coords"
  /\ fx' = [fx EXCEPT !.pc = "indexed",
                      !.result = IndexFromImageCoords(fx.level, QuarterOf(fx.qx),
                                                      QuarterOf(fx.qy))]
  /\ UNCHANGED notFx

NextIndex == IndexFromImageCoordsStep

SpecIndex == InitIndex /\ [][NextIndex]_vars

\* the column (row) of the grid of n tiles of size t that holds the pixel
\* coordinate q / 4 * dim, the last one for the far edge of the image
GridCell(q, dim, t, n) == MinOf({(q * dim) \div (4 * t), n - 1})

\* the result is a tile of the grid, the one in the row and column that hold the
\* point, with tile_x in [0, tile_width) and tile_y in [0, tile_height)
IndexIsTheTileOfThePoint ==
  LET level == fx.level
      cols  == ColCount(level)
      rows  == RowCount(level)
  IN  /\ fx.result.ok
      /\ fx.result.tile_index < cols * rows
      /\ fx.result.tile_index < Len(level.offsets)
      /\ fx.result.tile_index =
           GridCell(fx.qy, level.dimensions[2], level.tile_height, rows) * cols
             + GridCell(fx.qx, level.dimensions[1], level.tile_width, cols)
      /\ ~FLt(fx.result.tile_x, F0) /\ FLt(fx.result.tile_x, FFromInt(level.tile_width))
      /\ ~FLt(fx.result.tile_y, F0) /\ FLt(fx.result.tile_y, FFromInt(level.tile_height))

\* C24: for (x, y) in [0,1] x [0,1], x = 1 and y = 1 included,
\* index_from_image_coords returns a tile_index below col_count() * row_count()
\* that is the tile in the row and column containing the point, with
\* 0 <= tile_x < tile_width and 0 <= tile_y < tile_height; for a point outside
\* the square it returns ImageCoordOutOfRange.
C24_IndexInGrid ==
  fx.pc = "indexed" =>
    IF fx.qx \in 0..4 /\ fx.qy \in 0..4 THEN IndexIsTheTileOfThePoint ELSE ~fx.result.ok

\* C24 as the code has it: the same, except where x * width is the full width and
\* a multiple of tile_width, or y * height the full height and a multiple of
\* tile_height: there the column is col_count() or the row is row_count().
C24_ExceptFarEdgeOfWholeTiles ==
  fx.pc = "indexed" =>
    IF fx.qx \in 0..4 /\ fx.qy \in 0..4
    THEN IF \/ fx.qx = 4 /\ fx.level.dimensions[1] % fx.level.tile_width = 0
            \/ fx.qy = 4 /\ fx.level.dimensions[2] % fx.level.tile_height = 0
         THEN /\ fx.result.ok
              /\ fx.result.tile_index =
                   ((fx.qy * fx.level.dimensions[2]) \div (4 * fx.level.tile_height))
                       * ColCount(fx.level)
                     + ((fx.qx * fx.level.dimensions[1]) \div (4 * fx.level.tile_width))
              /\ ~IndexIsTheTileOfThePoint
         ELSE IndexIsTheTileOfThePoint
    ELSE ~fx.result.ok

(***************************************************************************)
(* SpecWalk: Tiff::open step by step on files of one or two IFDs without   *)
(* tags whose first-IFD offset and next-IFD offsets point anywhere: to 0,  *)
(* to an IFD of the file, or past the end.  The IFD list is kept by its    *)
(* length, counted up to MaxWalkIfds.                                      *)
(***************************************************************************)
MaxWalkIfds == 4

\* Tiff::open up to the first IFD offset: [err, endian, variant, ifd_offset]
TiffOpenHeader(bytes) ==
  IF ~CanRead(bytes, 0, 4) THEN [err |-> "ReadError"]
  ELSE IF ReadAt(bytes, 0, 2) \notin {<<73, 73>>, <<77, 77>>} THEN [err |-> "BadMagicBytes"]
  ELSE IF ReadAt(bytes, 2, 2) \notin {<<0, 42>>, <<42, 0>>, <<0, 43>>, <<43, 0>>}
       THEN [err |-> "BadMagicBytes"]
  ELSE LET endian  == IF ReadAt(bytes, 0, 2) = <<73, 73>> THEN "Little" ELSE "Big"
           variant == IF ReadAt(bytes, 2, 2) \in {<<0, 42>>, <<42, 0>>}
                      THEN "Normal" ELSE "BigTiff"
           hdr     == IF variant = "BigTiff" THEN 8 ELSE 4
           osz     == OffsetBytesize(variant)
       IN  IF ~CanRead(bytes, 4, hdr - 4 + osz) THEN [err |-> "ReadError"]
           ELSE [err |-> "none", endian |-> endian, variant |-> variant,
                 ifd_offset |-> EndianDecode(endian, ReadAt(bytes, hdr, osz))]

\* the offset of IFD k (from 1) of a file of IFDs without tags
WalkIfdOffset(variant, k) ==
  IF variant = "Normal" THEN 8 + 6 * (k - 1) ELSE 16 + 16 * (k - 1)

\* the offsets a pointer of a file of n IFDs takes: none, each IFD, past the end
WalkTargets(variant, n) ==
  {0, 200} \cup {WalkIfdOffset(variant, k) : k \in 1..n}

\* the bytes of the file: the header with the first IFD offset, then each IFD as
\* a tag count of 0 and its next-IFD offset
WalkFile(endian, variant, first, nexts) ==
  LET mark   == IF endian = "Little" THEN <<73, 73>> ELSE <<77, 77>>
      header == IF variant = "Normal"
                THEN mark \o EndianEncode(endian, 42, 2)
                ELSE mark \o EndianEncode(endian, 43, 2) \o EndianEncode(endian, 8, 2)
                          \o EndianEncode(endian, 0, 2)
      ifd(k) == EndianEncode(endian, 0, IF variant = "Normal" THEN 2 ELSE 8)
                  \o WriteOffset(variant, endian, nexts[k])
  IN  header \o WriteOffset(variant, endian, first)
        \o (IF Len(nexts) = 2 THEN ifd(1) \o ifd(2) ELSE ifd(1))

InitWalk ==
  /\ tf \in UNION { UNION { { [pc |-> "open", bytes |-> WalkFile(e, v, first, nexts),
                              endian |-> e, variant |-> v, ifd_offset |-> 0,
                              ifds |-> 0, seen |-> {}, result |-> "none"]
                            : first \in WalkTargets(v, n),
                              nexts \in [1..n -> WalkTargets(v, n)] }
                          : n \in 1..2 }
                  : e \in Endians, v \in TiffVariants }
  /\ rd = Idle /\ en = Idle /\ tc = Idle /\ cg = Idle /\ mx = Idle /\ op = Idle
  /\ pm = Idle /\ fx = Idle

\* Tiff::open, the header and the first IFD offset
WalkHeaderStep ==
  /\ tf.pc = "open"
  /\ \E h \in {TiffOpenHeader(tf.bytes)} :
       tf' = IF h.err # "none" THEN [tf EXCEPT !.pc = "returned", !.result = h.err]
             ELSE [tf EXCEPT !.pc = "walking", !.ifd_offset = h.ifd_offset]
  /\ UNCHANGED notTf

\* one turn of `while ifd_offset != 0`: Ifd::parse, ifds.push
WalkIfdStep ==
  /\ tf.pc = "walking" /\ tf.ifd_offset # 0
  /\ \E r \in {IfdParse(tf.bytes, tf.ifd_offset, tf.endian, tf.variant)} :
       tf' = IF ~r.ok THEN [tf EXCEPT !.pc = "returned", !.result = "ReadError"]
             ELSE [tf EXCEPT !.ifd_offset = r.next,
                             !.ifds = MinOf({@ + 1, MaxWalkIfds}),
                             !.seen = @ \cup {tf.ifd_offset}]
  /\ UNCHANGED notTf

\* the loop ends at a zero offset and open returns Ok
WalkReturnStep ==
  /\ tf.pc = "walking" /\ tf.ifd_offset = 0
  /\ tf' = [tf EXCEPT !.pc = "returned", !.result = "Ok"]
  /\ UNCHANGED notTf

NextWalk == WalkHeaderStep \/ WalkIfdStep \/ WalkReturnStep

SpecWalk == InitWalk /\ [][NextWalk]_vars

\* the call keeps running: a step is taken whenever one can be
FairWalk == SpecWalk /\ WF_vars(NextWalk)

\* C25: Tiff::open returns on every finite input, also when the next-IFD offsets
\* form a cycle.
C25_OpenReturns == <>(tf.pc = "returned")

\* C25 as the code has it: open returns, or the walk comes to an IFD offset it
\* has parsed before and goes round again.
C25_ReturnsUnlessOffsetRevisited ==
  <>(tf.pc = "returned" \/ (tf.pc = "walking" /\ tf.ifd_offset \in tf.seen))

\* once the walk is at an offset it has parsed before, open never returns
C25_CycleNeverReturns ==
  [][(tf.pc = "walking" /\ tf.ifd_offset \in tf.seen) => tf'.pc = "walking"]_vars

(***************************************************************************)
(* SpecPacked: Raster::put_pixel on rasters made by Raster::blank whose    *)
(* pixels are narrower than a byte or end inside one.  The widths are such *)
(* that a row is a whole number of bytes.                                  *)
(***************************************************************************)
\* Raster::blank: a zeroed buffer of w * h * bits_per_pixel / 8 bytes
RasterBlank(dimensions, bits_per_sample) ==
  LET bits_per_pixel == SumSeq(bits_per_sample)
  IN  [ok |-> TRUE, dimensions |-> dimensions,
       buffer |-> [k \in 1..((dimensions[1] * dimensions[2] * bits_per_pixel) \div 8) |-> 0]
                    \o << >>,
       bits_per_sample |-> bits_per_sample, bits_per_pixel |-> bits_per_pixel]

\* the rasters of the model as (width, height, bits_per_sample)
PackedShapes == { <<2, 1, <<4>>>>, <<4, 1, <<4>>>>, <<2, 2, <<4>>>>, <<4, 1, <<2>>>>,
                  <<8, 1, <<1>>>>, <<2, 1, <<4, 4, 4>>>>, <<2, 2, <<4, 4, 4>>>> }

\* the pixel whose own bits are all ones, as get_pixel returns it
OnesPixel(raster, x, y) ==
  GetPixel([raster EXCEPT !.buffer = [k \in 1..Len(raster.buffer) |-> 255] \o << >>], x, y).pixel

InitPacked ==
  /\ fx \in { [pc |-> "blank", raster |-> RasterBlank(<<s[1], s[2]>>, s[3]),
              before |-> << >>, x |-> 0, y |-> 0, pixel |-> << >>, puts |-> 0]
            : s \in PackedShapes }
  /\ tf = Idle /\ rd = Idle /\ en = Idle /\ tc = Idle /\ cg = Idle /\ mx = Idle
  /\ op = Idle /\ pm = Idle

\* raster.put_pixel(x, y, pixel) for (x, y) in range and a pixel that has its own
\* bits set, or none; at most two calls on a raster
PackedPutStep ==
  /\ fx.pc \in {"blank", "put"} /\ fx.puts < 2
  /\ \E x \in 0..(fx.raster.dimensions[1] - 1), y \in 0..(fx.raster.dimensions[2] - 1) :
       \E pixel \in {OnesPixel(fx.raster, x, y),
                     [k \in 1..Len(OnesPixel(fx.raster, x, y)) |-> 0] \o << >>} :
         \E r \in {PutPixel(fx.raster, x, y, pixel)} :
           /\ r.ok
           /\ fx' = [fx EXCEPT !.pc = "put", !.x = x, !.y = y, !.pixel = pixel,
                               !.puts = @ + 1, !.before = fx.raster.buffer,
                               !.raster.buffer = r.buffer]
  /\ UNCHANGED notFx

NextPacked == PackedPutStep

SpecPacked == InitPacked /\ [][NextPacked]_vars

\* the bytes of the buffer (from 1) that hold bits of pixel (x, y)
PixelBytes(raster, x, y) ==
  LET row == y * ((raster.dimensions[1] * raster.bits_per_pixel + 7) \div 8)
  IN  (row + (x * raster.bits_per_pixel) \div 8 + 1)
        .. (row + ((x + 1) * raster.bits_per_pixel + 7) \div 8)

\* C27: on a raster whose bits_per_pixel is not a multiple of 8, put_pixel(x, y, p)
\* changes only the bits of pixel (x, y): get_pixel of every other pixel, the
\* pixels sharing a byte with (x, y) included, returns what it returned before.
C27_OtherPixelsKept ==
  fx.pc = "put" =>
    \A x \in 0..(fx.raster.dimensions[1] - 1), y \in 0..(fx.raster.dimensions[2] - 1) :
      <<x, y>> # <<fx.x, fx.y>> =>
        GetPixel(fx.raster, x, y) = GetPixel([fx.raster EXCEPT !.buffer = fx.before], x, y)

\* C27 as the code has it: put_pixel writes the bytes of p over every byte that
\* holds bits of (x, y); the pixels that share no byte with (x, y) are kept, and
\* the bits other pixels have in those bytes become the bits of p.
C27_OtherBytesKept ==
  fx.pc = "put" =>
    /\ \A k \in 1..Len(fx.raster.buffer) :
         IF k \in PixelBytes(fx.raster, fx.x, fx.y)
         THEN fx.raster.buffer[k] = fx.pixel[k + 1 - MinOf(PixelBytes(fx.raster, fx.x, fx.y))]
         ELSE fx.raster.buffer[k] = fx.before[k]
    /\ \A x \in 0..(fx.raster.dimensions[1] - 1), y \in 0..(fx.raster.dimensions[2] - 1) :
         PixelBytes(fx.raster, x, y) \cap PixelBytes(fx.raster, fx.x, fx.y) = {} =>
           GetPixel(fx.raster, x, y) = GetPixel([fx.raster EXCEPT !.buffer = fx.before], x, y)

(***************************************************************************)
(* SpecBuffer: Raster::new on buffers of every length from 0 to            *)
(* MaxBufferLen, Raster::blank followed by Raster::new of its buffer, and  *)
(* resize and get_region of a raster new accepted.                         *)
(***************************************************************************)
MaxBufferLen == 6

BufferDims == { <<1, 1>>, <<2, 1>>, <<2, 2>>, <<3, 1>> }

BufferSamples == { <<8>>, <<8, 8>>, <<4>>, <<4, 4, 4>>, <<1>> }

InitBuffer ==
  /\ fx \in { [pc |-> "args", dimensions |-> d, bits_per_sample |-> bps, len |-> n,
              raster |-> [ok |-> FALSE], accepted |-> FALSE]
            : d \in BufferDims, bps \in BufferSamples, n \in 0..MaxBufferLen }
  /\ tf = Idle /\ rd = Idle /\ en = Idle /\ tc = Idle /\ cg = Idle /\ mx = Idle
  /\ op = Idle /\ pm = Idle

\* Raster::new(dimensions, buffer, bits_per_sample, ..) with a buffer of len bytes
RasterNewStep ==
  /\ fx.pc = "args"
  /\ fx' = [fx EXCEPT !.pc = "new",
                      !.raster = RasterNew(fx.dimensions,
                                           [k \in 1..fx.len |-> k] \o << >>,
                                           fx.bits_per_sample)]
  /\ UNCHANGED notFx

\* Raster::blank(dimensions, bits_per_sample, ..), then Raster::new of its buffer
RasterBlankStep ==
  /\ fx.pc = "args"
  /\ \E blank \in {RasterBlank(fx.dimensions, fx.bits_per_sample)} :
       fx' = [fx EXCEPT !.pc = "blank", !.raster = blank,
                        !.accepted = RasterNew(fx.dimensions, blank.buffer,
                                               fx.bits_per_sample).ok]
  /\ UNCHANGED notFx

\* raster.resize(width, height, Nearest) of a raster new returned
RasterResizeStep ==
  /\ fx.pc = "new" /\ fx.raster.ok
  /\ \E width \in 1..3, height \in 1..2 :
       fx' = [fx EXCEPT !.pc = "derived", !.raster = ResizeNearest(fx.raster, width, height)]
  /\ UNCHANGED notFx

\* raster.get_region(region) of a raster new returned
RasterGetRegionStep ==
  /\ fx.pc = "new" /\ fx.raster.ok
  /\ \E x \in 0..1, width \in 1..2, height \in 1..2 :
       fx' = [fx EXCEPT !.pc = "derived",
                        !.raster = GetRegion(fx.raster, [xmin |-> x, ymin |-> 0,
                                                         xmax |-> x + width, ymax |-> height])]
  /\ UNCHANGED notFx

NextBuffer == RasterNewStep \/ RasterBlankStep \/ RasterResizeStep \/ RasterGetRegionStep

SpecBuffer == InitBuffer /\ [][NextBuffer]_vars

\* w * h * bits_per_pixel / 8 for the raster, or for the arguments of new
LengthByBits(dimensions, bits_per_sample) ==
  (dimensions[1] * dimensions[2] * SumSeq(bits_per_sample)) \div 8

\* w * h * (bits_per_pixel / 8)
LengthByBytes(dimensions, bits_per_sample) ==
  dimensions[1] * dimensions[2] * (SumSeq(bits_per_sample) \div 8)

\* C28: Raster::new accepts a buffer exactly when its length is
\* w * h * bits_per_pixel / 8 and returns BufferSize otherwise; every Raster new,
\* blank, resize or get_region gives has a buffer of that length, and new accepts
\* the buffer blank makes for the same dimensions and bits_per_sample.
C28_LengthEquation ==
  /\ fx.pc = "new" =>
       (fx.raster.ok <=> fx.len = LengthByBits(fx.dimensions, fx.bits_per_sample))
  /\ (fx.pc \in {"new", "blank", "derived"} /\ fx.raster.ok) =>
       Len(fx.raster.buffer) = LengthByBits(fx.raster.dimensions, fx.raster.bits_per_sample)
  /\ fx.pc = "blank" => fx.accepted

\* C28 as the code has it: new accepts a buffer exactly when its length is
\* w * h * (bits_per_pixel / 8), the division rounding down first; blank makes
\* w * h * bits_per_pixel / 8 bytes, which new accepts only when the two lengths
\* agree; resize and get_region give rasters of whole-byte pixels, for which they do.
C28_ExceptPackedPixels ==
  /\ fx.pc = "new" =>
       (fx.raster.ok <=> fx.len = LengthByBytes(fx.dimensions, fx.bits_per_sample))
  /\ (fx.pc = "new" /\ fx.raster.ok) =>
       Len(fx.raster.buffer) = LengthByBytes(fx.dimensions, fx.bits_per_sample)
  /\ fx.pc = "blank" =>
       /\ Len(fx.raster.buffer) = LengthByBits(fx.dimensions, fx.bits_per_sample)
       /\ fx.accepted <=> LengthByBits(fx.dimensions, fx.bits_per_sample)
                            = LengthByBytes(fx.dimensions, fx.bits_per_sample)
  /\ (fx.pc = "derived" /\ fx.raster.ok) =>
       /\ fx.raster.bits_per_pixel % 8 = 0
       /\ Len(fx.raster.buffer) = LengthByBits(fx.raster.dimensions, fx.raster.bits_per_sample)

(***************************************************************************)
(* SpecPredict: Predictor::predict on buffers of 8-bit samples, one to     *)
(* three pixels wide, one or two samples per pixel, one or two rows.       *)
(***************************************************************************)
\* Predictor as u16: No, Horizontal, FloatingPoint, and a code that is Unknown
Predictors == [No |-> 1, Horizontal |-> 2, FloatingPoint |-> 3, Unknown |-> 7]

\* the Horizontal loop without the test that skips the first pixel of a row
RECURSIVE HorizontalAcrossRows(_, _, _, _)
HorizontalAcrossRows(buffer, i, row_bytes, samples_per_pixel) ==
  IF i >= Len(buffer) THEN buffer
  ELSE IF i < samples_per_pixel
       THEN HorizontalAcrossRows(buffer, i + 1, row_bytes, samples_per_pixel)
       ELSE HorizontalAcrossRows(
              [buffer EXCEPT ![i + 1] = (@ + buffer[i + 1 - samples_per_pixel]) % 256],
              i + 1, row_bytes, samples_per_pixel)

\* the Horizontal loop from byte i (from 0): buffer[i] =
\* buffer[i].wrapping_add(buffer[i - samples_per_pixel]) unless i is in the first
\* pixel of its row
RECURSIVE HorizontalLoop(_, _, _, _)
HorizontalLoop(buffer, i, row_bytes, samples_per_pixel) ==
  IF i >= Len(buffer) THEN buffer
  ELSE IF i % row_bytes < samples_per_pixel
       THEN HorizontalLoop(buffer, i + 1, row_bytes, samples_per_pixel)
       ELSE HorizontalLoop(
              [buffer EXCEPT ![i + 1] = (@ + buffer[i + 1 - samples_per_pixel]) % 256],
              i + 1, row_bytes, samples_per_pixel)

\* Predictor::predict for bit_depth <= 8 and a row of at least one byte: Ok and
\* the buffer after it, or PredictorNotSupported and the buffer as it was
PredictorPredict(predictor, buffer, width, bit_depth, samples_per_pixel) ==
  IF predictor = Predictors.No THEN [ok |-> TRUE, buffer |-> buffer]
  ELSE IF predictor = Predictors.Horizontal
  THEN [ok |-> TRUE,
        buffer |-> HorizontalLoop(buffer, 0, (width * samples_per_pixel * bit_depth) \div 8,
                                  samples_per_pixel)]
  ELSE [ok |-> FALSE, buffer |-> buffer]

\* the bytes of the model: a ramp, bytes whose sums pass 255, and all 255
PredictBytes(pattern, k) ==
  CASE pattern = "ramp" -> k
    [] pattern = "wrap" -> (100 * k) % 256
    [] pattern = "ones" -> 255

InitPredict ==
  /\ fx \in { [pc |-> "decoded", predictor |-> p, width |-> w, samples_per_pixel |-> spp,
              input |-> [k \in 1..(w * spp * rows) |-> PredictBytes(pattern, k)] \o << >>,
              result |-> [ok |-> FALSE]]
            : p \in {Predictors.No, Predictors.Horizontal, Predictors.FloatingPoint,
                     Predictors.Unknown},
              w \in 1..3, spp \in 1..2, rows \in 1..2,
              pattern \in {"ramp", "wrap", "ones"} }
  /\ tf = Idle /\ rd = Idle /\ en = Idle /\ tc = Idle /\ cg = Idle /\ mx = Idle
  /\ op = Idle /\ pm = Idle

\* predictor.predict(&mut buffer, width, 8, samples_per_pixel)
PredictStep ==
  /\ fx.pc = "decoded"
  /\ fx' = [fx EXCEPT !.pc = "predicted",
                      !.result = PredictorPredict(fx.predictor, fx.input, fx.width, 8,
                                                  fx.samples_per_pixel)]
  /\ UNCHANGED notFx

NextPredict == PredictStep

SpecPredict == InitPredict /\ [][NextPredict]_vars

\* the sum of the bytes of the input at the positions (from 0) of S
RECURSIVE SumBytesAt(_)
SumBytesAt(S) ==
  IF S = {} THEN 0
  ELSE LET i == MinOf(S) IN fx.input[i + 1] + SumBytesAt(S \ {i})

\* C29: Horizontal turns every row of width * samples_per_pixel bytes into its
\* running sum per component modulo 256: the first samples_per_pixel bytes of a
\* row are unchanged, a later byte i becomes (in[i] + out[i - samples_per_pixel])
\* mod 256, and no byte depends on a byte of another row; No leaves the buffer
\* unchanged; any other predictor returns PredictorNotSupported and leaves the
\* buffer unchanged.
C29_RowwiseRunningSum ==
  fx.pc = "predicted" =>
    LET spp       == fx.samples_per_pixel
        row_bytes == fx.width * spp
        out       == fx.result.buffer
    IN  /\ Len(out) = Len(fx.input)
        /\ fx.predictor = Predictors.No => (fx.result.ok /\ out = fx.input)
        /\ fx.predictor \notin {Predictors.No, Predictors.Horizontal} =>
             (~fx.result.ok /\ out = fx.input)
        /\ fx.predictor = Predictors.Horizontal =>
             /\ fx.result.ok
             /\ \A i \in 0..(Len(out) - 1) :
                  /\ i % row_bytes < spp => out[i + 1] = fx.input[i + 1]
                  /\ i % row_bytes >= spp =>
                       out[i + 1] = (fx.input[i + 1] + out[i + 1 - spp]) % 256
                  /\ out[i + 1] =
                       SumBytesAt({j \in 0..i : /\ j \div row_bytes = i \div row_bytes
                                                /\ j % spp = i % spp}) % 256

\* two rows of three pixels of two samples whose sums pass 255: the second row
\* starts again from its own first pixel
C29_Witness ==
  /\ fx.pc = "predicted" /\ fx.predictor = Predictors.Horizontal /\ fx.result.ok
  /\ fx.width = 3 /\ fx.samples_per_pixel = 2 /\ Len(fx.input) = 12
  /\ fx.input[1] = 100
  /\ fx.result.buffer[7] = fx.input[7]
  /\ fx.result.buffer[5] = (100 + 44 + 244) % 256
  /\ fx.result.buffer # fx.input

(***************************************************************************)
(* SpecOrder: project_pixel_map and render_pixel_map on a level of 4 x 2   *)
(* pixels in two tiles of 2 x 2, every tile decoded.  The pixel map is a   *)
(* HashMap: render_pixel_map visits its tiles in any order.  Pixels are    *)
(* one 8-bit sample, or three 4-bit samples, for which Raster::new takes a *)
(* tile buffer of one byte per pixel.                                      *)
(***************************************************************************)
\* what transform_from_proj gives for an output pixel, image coordinates in
\* quarters: an error, the first pixel of tile 0, the first pixel of tile 1, the
\* second pixel of tile 0, the last pixel of tile 1, a point right of the image
OrderImages ==
  {[ok |-> FALSE, u |-> 0, v |-> 0]}
    \cup {[ok |-> TRUE, u |-> c[1], v |-> c[2]]
          : c \in {<<0, 0>>, <<2, 0>>, <<1, 0>>, <<3, 2>>, <<5, 0>>}}

OrderDims == { <<2, 1>>, <<3, 1>> }

OrderSamples == { <<8>>, <<4, 4, 4>> }

\* the level, with the bits_per_sample Level::from_ifd read
OrderLevel(bps) == MkLevel(4, 2, 2, 0) @@ [bits_per_sample |-> bps]

\* the raster extract_tile_from_bytes gives for tile k: four bytes that differ
\* from tile to tile and have bits in both halves
OrderTile(level, k) ==
  RasterNew(<<level.tile_width, level.tile_height>>,
            [j \in 1..4 |-> 17 * (j + 4 * k)] \o << >>, level.bits_per_sample)

\* self.buffer[start..end] of get_pixel and put_pixel ends past the buffer
PixelSpanPanics(raster, x, y) ==
  /\ x < raster.dimensions[1] /\ y < raster.dimensions[2]
  /\ y * ((raster.dimensions[1] * raster.bits_per_pixel + 7) \div 8)
       + ((x + 1) * raster.bits_per_pixel + 7) \div 8 > Len(raster.buffer)

\* render_pixel_map, the inner loop over the entries of one tile from entry m:
\* get_pixel of the tile, put_pixel into the render raster, its Err ignored;
\* [panic, raster, written: the output pixels put_pixel wrote, in order]
RECURSIVE WriteTileEntries(_, _, _, _, _)
WriteTileEntries(raster, tile, entries, m, written) ==
  IF m > Len(entries) THEN [panic |-> FALSE, raster |-> raster, written |-> written]
  ELSE LET x  == FToNat(entries[m].from[1])
           y  == FToNat(entries[m].from[2])
           to == entries[m].to
       IN  IF PixelSpanPanics(tile, x, y) THEN [panic |-> TRUE]
           ELSE Only({ IF ~px.some THEN WriteTileEntries(raster, tile, entries, m + 1, written)
                       ELSE IF PixelSpanPanics(raster, to[1], to[2]) THEN [panic |-> TRUE]
                       ELSE Only({ WriteTileEntries(
                                     IF r.ok THEN [raster EXCEPT !.buffer = r.buffer]
                                     ELSE raster,
                                     tile, entries, m + 1,
                                     IF r.ok THEN Append(written, to) ELSE written)
                                 : r \in {PutPixel(raster, to[1], to[2], px.pixel)} })
                     : px \in {GetPixel(tile, x, y)} })

\* render_pixel_map with the tiles of the map visited in the order of keys
RECURSIVE RenderInOrder(_, _, _, _, _)
RenderInOrder(pixel_map, level, raster, keys, n) ==
  IF n > Len(keys) THEN [panic |-> FALSE, raster |-> raster]
  ELSE Only({ IF r.panic THEN [panic |-> TRUE]
              ELSE RenderInOrder(pixel_map, level, r.raster, keys, n + 1)
            : r \in {WriteTileEntries(raster, OrderTile(level, keys[n]),
                                      pixel_map[keys[n]], 1, << >>)} })

\* the members of a set of numbers in ascending order
RECURSIVE Ascending(_)
Ascending(S) == IF S = {} THEN << >> ELSE <<MinOf(S)>> \o Ascending(S \ {MinOf(S)})

InitOrder ==
  /\ pm \in { [pc |-> "ready", dims |-> d, level |-> OrderLevel(bps), px |-> px,
              pixel_map |-> << >>, todo |-> {}, order |-> << >>,
              raster |-> [ok |-> FALSE], written |-> << >>]
            : d \in OrderDims, bps \in OrderSamples,
              px \in UNION { [1..(d[1] * d[2]) -> OrderImages] : d \in OrderDims } }
  /\ Len(pm.px) = pm.dims[1] * pm.dims[2]
  /\ tf = Idle /\ rd = Idle /\ en = Idle /\ tc = Idle /\ cg = Idle /\ mx = Idle
  /\ op = Idle /\ fx = Idle

\* project_pixel_map, then get_tiles, then render_pixel_map up to its loop:
\* Raster::blank and pixel_map.iter()
OrderMapStep ==
  /\ pm.pc = "ready"
  /\ \E r \in { ProjectPixelMap(pm.level,
                  [n \in 1..Len(pm.px) |->
                     [ok |-> pm.px[n].ok, u |-> QuarterOf(pm.px[n].u),
                      v |-> QuarterOf(pm.px[n].v)]] \o << >>,
                  pm.dims, TRUE) } :
       pm' = IF r.err # "none" THEN [pm EXCEPT !.pc = "failed"]
             ELSE [pm EXCEPT !.pc = "render", !.pixel_map = r.pixel_map,
                             !.todo = DOMAIN r.pixel_map,
                             !.raster = RasterBlank(pm.dims, pm.level.bits_per_sample)]
  /\ UNCHANGED notPm

\* one turn of `for (tile_index, tile_pixel_map) in pixel_map.iter()`, the tile
\* being any tile not yet visited; a tile index outside the grid has no tile
OrderTileStep ==
  /\ pm.pc = "render"
  /\ \E k \in pm.todo :
       IF k >= Len(pm.level.offsets)
       THEN pm' = [pm EXCEPT !.todo = @ \ {k}, !.order = Append(@, k)]
       ELSE \E r \in {WriteTileEntries(pm.raster, OrderTile(pm.level, k),
                                       pm.pixel_map[k], 1, << >>)} :
              pm' = IF r.panic THEN [pm EXCEPT !.pc = "panicked"]
                    ELSE [pm EXCEPT !.todo = @ \ {k}, !.order = Append(@, k),
                                    !.raster = r.raster, !.written = @ \o r.written]
  /\ UNCHANGED notPm

\* the loop is over: Ok(render_raster)
OrderReturnStep ==
  /\ pm.pc = "render" /\ pm.todo = {}
  /\ pm' = [pm EXCEPT !.pc = "done"]
  /\ UNCHANGED notPm

NextOrder == OrderMapStep \/ OrderTileStep \/ OrderReturnStep

SpecOrder == InitOrder /\ [][NextOrder]_vars

\* each output pixel is in the list of at most one tile, at most once, and
\* put_pixel has written no output pixel twice
EachPixelOnce ==
  /\ \A to \in (0..(pm.dims[1] - 1)) \X (0..(pm.dims[2] - 1)) :
       Cardinality({e \in UNION {{k} \X DOMAIN pm.pixel_map[k] : k \in DOMAIN pm.pixel_map} :
                      pm.pixel_map[e[1]][e[2]].to = to}) <= 1
  /\ \A a, b \in 1..Len(pm.written) : pm.written[a] = pm.written[b] => a = b

\* the raster is the one a render visiting the tiles in ascending order gives
SameAsAscendingOrder ==
  \E r \in {RenderInOrder(pm.pixel_map, pm.level,
                          RasterBlank(pm.dims, pm.level.bits_per_sample),
                          Ascending({k \in DOMAIN pm.pixel_map : k < Len(pm.level.offsets)}),
                          1)} :
    ~r.panic /\ r.raster.buffer = pm.raster.buffer

\* C30: project_pixel_map puts each output pixel in the list of at most one tile,
\* at most once, render_pixel_map writes every output pixel at most once, and the
\* raster returned is the same for every order in which the tiles of the pixel
\* map are visited.
C30_RasterIndependentOfOrder ==
  /\ pm.pc \in {"render", "done"} => EachPixelOnce
  /\ pm.pc = "done" => SameAsAscendingOrder

\* C30 as the code has it: the same for pixels of whole bytes; for pixels that
\* end inside a byte each output pixel is still written at most once, but the
\* raster depends on the order of the tiles.
C30_ExceptPackedPixels ==
  /\ pm.pc \in {"render", "done"} => EachPixelOnce
  /\ (pm.pc = "done" /\ pm.raster.bits_per_pixel % 8 = 0) => SameAsAscendingOrder

====
